---------------------------- MODULE Spec2Model ----------------------------
(***************************************************************************)
(* A model of the API security scanner: the scan orchestrator runApiTest   *)
(* (src/src/utils/apiTester.ts lines 1-114) and the probes it runs, which  *)
(* live in the second half of the same file (lines 115-556, the module     *)
(* the orchestrator imports as './securityTests').                         *)
(*                                                                         *)
(* JavaScript strings are modelled as sequences of text pieces, so that    *)
(* equality and substring search (String.prototype.includes) are computed  *)
(* rather than assumed.  JavaScript objects used as maps (headers) are     *)
(* functions whose domain is the set of own keys; a missing key reads as   *)
(* Undefined.                                                              *)
(***************************************************************************)
EXTENDS Integers, Sequences, FiniteSets, TLC

(***************************************************************************)
(* Values                                                                  *)
(***************************************************************************)

\* The value `undefined`: what a missing property reads as.
Undefined == <<"<undefined>">>

\* The empty string.
EmptyStr == <<>>

\* An object without own keys.
EmptyMap == [k \in {} |-> EmptyStr]

\* obj[key] on a map: the value, or undefined for a missing key.
Get(obj, key) == IF key \in DOMAIN obj THEN obj[key] ELSE Undefined

\* JavaScript truthiness of a string-or-undefined value.
Truthy(v) == v # Undefined /\ v # EmptyStr

\* The map holding the pairs <<key, value>> of a set (one pair per key).
MapOf(pairs) ==
  [k \in {p[1] : p \in pairs} |-> (CHOOSE p \in pairs : p[1] = k)[2]]

\* obj without the own key `key` (the delete operator on a copy).
Delete(obj, key) == [k \in (DOMAIN obj) \ {key} |-> obj[k]]

\* { ...a, ...b }: b's keys override a's.
Spread(a, b) ==
  [k \in (DOMAIN a) \cup (DOMAIN b) |-> IF k \in DOMAIN b THEN b[k] ELSE a[k]]

\* String.prototype.includes on piece sequences: needle occurs contiguously.
Includes(s, needle) ==
  \E i \in 0..(Len(s) - Len(needle)) :
     \A j \in 1..Len(needle) : s[i + j] = needle[j]

\* Array.prototype.join: the pieces of xs with sep between them.
RECURSIVE Join(_, _)
Join(xs, sep) ==
  IF Len(xs) = 0 THEN <<>>
  ELSE IF Len(xs) = 1 THEN <<xs[1]>>
  ELSE <<xs[1], sep>> \o Join(Tail(xs), sep)

(***************************************************************************)
(* JSON text.  A request body is a string; it is modelled as its sequence  *)
(* of JSON tokens.  JSON.parse accepts a scalar, or a flat object          *)
(* { "k": scalar, ... }; everything else is a SyntaxError.                  *)
(***************************************************************************)
StringToks == {"\"a\"", "\"x\"", "\"name\"", "\"secret\""}
ScalarToks == StringToks \cup {"1", "42", "true", "false", "null"}

\* toks[i..] is  "k" : scalar  followed by  }  or by  , and more members.
RECURSIVE JsonMembers(_, _)
JsonMembers(toks, i) ==
  /\ i + 3 <= Len(toks)
  /\ toks[i] \in StringToks
  /\ toks[i + 1] = ":"
  /\ toks[i + 2] \in ScalarToks
  /\ \/ toks[i + 3] = "}" /\ i + 3 = Len(toks)
     \/ toks[i + 3] = "," /\ JsonMembers(toks, i + 4)

\* Whether JSON.parse(str) returns (TRUE) or throws a SyntaxError (FALSE).
JsonParses(str) ==
  \/ Len(str) = 1 /\ str[1] \in ScalarToks
  \/ str = <<"{", "}">>
  \/ Len(str) >= 5 /\ str[1] = "{" /\ JsonMembers(str, 2)

\* The value null.
Null == <<"null">>

\* JSON.parse(str) when it returns: the parsed document, kept as the list of
\* its keys and scalars (the punctuation of the text is gone).
JsonParse(str) == SelectSeq(str, LAMBDA t : t \notin {"{", "}", ":", ","})

\* The message of the SyntaxError JSON.parse throws.
SyntaxErrorMessage == <<"Unexpected token in JSON">>

\* A parse helper that hands the raw text on when JSON.parse throws.
safeJsonParseKeepsText(str) == IF JsonParses(str) THEN JsonParse(str) ELSE str

\* safeJsonParse: the parsed document, or null when JSON.parse throws.
safeJsonParse(str) == IF JsonParses(str) THEN JsonParse(str) ELSE Null

\* `endpoint.body ? safeJsonParse(endpoint.body) : undefined`, the data of a
\* probe request.
ProbeData(endpoint) ==
  IF Truthy(endpoint.body) THEN safeJsonParse(endpoint.body) ELSE Undefined

(***************************************************************************)
(* Response payloads.  A payload is the document axios hands over          *)
(* (response.data), kept as the token sequence JSON.stringify gives for    *)
(* it.  BigIntDoc stands for a payload JSON.stringify throws on.           *)
(***************************************************************************)
BigIntDoc == <<"<bigint>", "7">>

\* Whether JSON.stringify(obj) returns without throwing.
Stringifiable(obj) == ~(Len(obj) >= 1 /\ obj[1] = "<bigint>")

\* makeSerializable: null and undefined are returned as they are, a value
\* JSON.stringify accepts is returned unchanged, any other non-object value
\* is rendered by String().
makeSerializable(obj) ==
  IF obj = Null \/ obj = Undefined THEN obj
  ELSE IF Stringifiable(obj) THEN obj
  ELSE Tail(obj)

(***************************************************************************)
(* makeSerializable on structured values.  A value in memory is a term:    *)
(* a leaf (number, bigint, null), an object or an array with its members   *)
(* in order, or a reference "up" to the n-th enclosing container (1 is the *)
(* container that holds the reference), which is how a reference cycle is  *)
(* written.  A value is a position (path of member indices) in a root      *)
(* term.  Objects name their members "a", "b", ... by position.            *)
(***************************************************************************)
Leaf(t, v) == [t |-> t, v |-> v, n |-> 0, kids |-> <<>>]

Up(n) == [t |-> "up", v |-> "", n |-> n, kids |-> <<>>]

Container(t, kids) == [t |-> t, v |-> "", n |-> 0, kids |-> kids]

NumberLeaf == Leaf("number", "1")
BigIntLeaf == Leaf("bigint", "7")
NullLeaf == Leaf("null", "null")

\* The depth of the call stack: a call of makeSerializable deeper than this
\* throws RangeError (maximum call stack size exceeded).
MaxStack == 5

\* The term at a position of the root.
RECURSIVE At(_, _)
At(root, path) ==
  IF path = <<>> THEN root ELSE At(root.kids[Head(path)], Tail(path))

\* Whether JSON.stringify throws on a term: it holds a BigInt, or a
\* reference to an enclosing container (every such reference closes a cycle
\* through the value being encoded).
RECURSIVE StringifyThrows(_)
StringifyThrows(term) ==
  \/ term.t \in {"bigint", "up"}
  \/ \E i \in 1..Len(term.kids) : StringifyThrows(term.kids[i])

\* The position member i of the container at path refers to.
MemberPath(root, path, i) ==
  LET kid == At(root, path).kids[i] IN
  IF kid.t = "up" THEN SubSeq(path, 1, Len(path) - (kid.n - 1))
  ELSE Append(path, i)

\* What a call gives: a returned value, or a raised error.
Returns(term) == [raised |-> FALSE, value |-> term]

Raises == [raised |-> TRUE, value |-> Leaf("error", "RangeError")]

\* `[Non-serializable ${typeof obj[key]}]`: only a call on an object or an
\* array can raise, and typeof is "object" for both.
Placeholder(term) == Leaf("string", "[Non-serializable object]")

\* A rendering of a non-object value that wraps it in an array.
StringOfBoxed(term) == Container("array", <<term>>)

\* String(obj) of a non-object value.
StringOf(term) == Leaf("string", term.v)

\* makeSerializable(obj) called at stack depth `depth`, obj being the value
\* at `path` of `root` (lines 128-163).
RECURSIVE makeSerializableAt(_, _, _)
makeSerializableAt(root, path, depth) ==
  LET obj == At(root, path) IN
  IF depth > MaxStack THEN Raises
  ELSE IF obj.t = "null" THEN Returns(obj)
  ELSE IF ~StringifyThrows(obj) THEN Returns(obj)
  ELSE IF obj.t = "array" THEN
    \* obj.map(item => makeSerializable(item)), outside any try block
    LET items == [i \in 1..Len(obj.kids) |->
                    makeSerializableAt(root, MemberPath(root, path, i), depth + 1)]
    IN IF \E i \in 1..Len(items) : items[i].raised THEN Raises
       ELSE Returns(Container("array", [i \in 1..Len(items) |-> items[i].value]))
  ELSE IF obj.t = "object" THEN
    \* for (const key in obj) try { ... } catch { placeholder }
    LET members == [i \in 1..Len(obj.kids) |->
                      makeSerializableAt(root, MemberPath(root, path, i), depth + 1)]
    IN Returns(Container("object",
                 [i \in 1..Len(members) |->
                    IF members[i].raised
                      THEN Placeholder(At(root, MemberPath(root, path, i)))
                      ELSE members[i].value]))
  ELSE Returns(StringOf(obj))

\* makeSerializable of a whole value, called from the top of the stack.
makeSerializableValue(term) == makeSerializableAt(term, <<>>, 1)

\* The document { message: msg } or { error: msg }.
MessageDoc(key, msg) == <<"{", key, ":">> \o msg \o <<"}">>

(***************************************************************************)
(* The outcome of one axios(config) call, chosen by the remote side and    *)
(* the network.  With validateStatus: () => true every received status     *)
(* resolves; a rejection is an AxiosError (transport failure, with or      *)
(* without a response attached) or some other thrown value.                *)
(***************************************************************************)
HttpResponse(status, headers, data) ==
  [kind |-> "response", status |-> status, statusText |-> EmptyStr,
   headers |-> headers, data |-> data, hasResponse |-> TRUE,
   message |-> EmptyStr]

AxiosError(message) ==
  [kind |-> "axiosError", status |-> 0, statusText |-> Undefined,
   headers |-> EmptyMap, data |-> Undefined, hasResponse |-> FALSE,
   message |-> message]

AxiosErrorWithResponse(message, status, headers, data) ==
  [kind |-> "axiosError", status |-> status,
   statusText |-> <<"Bad Gateway">>, headers |-> headers, data |-> data,
   hasResponse |-> TRUE, message |-> message]

OtherError(message) ==
  [kind |-> "error", status |-> 0, statusText |-> Undefined,
   headers |-> EmptyMap, data |-> Undefined, hasResponse |-> FALSE,
   message |-> message]

\* A client that hands every failure on to the probe's catch block.
safeAxiosRequestRethrows(o) ==
  IF o.kind = "response"
    THEN [ok |-> TRUE, status |-> o.status, statusText |-> o.statusText,
          headers |-> o.headers, data |-> o.data, error |-> EmptyStr]
    ELSE [ok |-> FALSE, status |-> 0, statusText |-> Undefined,
          headers |-> EmptyMap, data |-> Undefined, error |-> o.message]

\* A client that synthesizes status 500 for every axios error, whether or
\* not a response came with it.
safeAxiosRequestAlways500(o) ==
  IF o.kind = "response"
    THEN [ok |-> TRUE, status |-> o.status, statusText |-> o.statusText,
          headers |-> o.headers, data |-> o.data, error |-> EmptyStr]
  ELSE IF o.kind = "axiosError"
    THEN [ok |-> TRUE, status |-> 500, statusText |-> <<"Error">>,
          headers |-> IF o.hasResponse THEN o.headers ELSE EmptyMap,
          data |-> IF o.hasResponse /\ Truthy(o.data) /\ o.data # Null
                     THEN makeSerializable(o.data)
                     ELSE MessageDoc("\"message\"", <<"\"">> \o o.message \o <<"\"">>),
          error |-> EmptyStr]
  ELSE [ok |-> FALSE, status |-> 0, statusText |-> Undefined,
        headers |-> EmptyMap, data |-> Undefined, error |-> o.message]

\* safeAxiosRequest: a response is passed through; an AxiosError becomes a
\* response-shaped value; any other error is thrown again (ok = FALSE).
\* A header map holds strings only, so makeSerializable returns it as it is.
safeAxiosRequest(o) ==
  IF o.kind = "response"
    THEN [ok |-> TRUE, status |-> o.status, statusText |-> o.statusText,
          headers |-> o.headers, data |-> o.data, error |-> EmptyStr]
  ELSE IF o.kind = "axiosError"
    THEN [ok |-> TRUE,
          status |-> IF o.hasResponse /\ o.status # 0 THEN o.status ELSE 500,
          statusText |-> IF o.hasResponse /\ Truthy(o.statusText)
                           THEN o.statusText ELSE <<"Error">>,
          headers |-> IF o.hasResponse THEN o.headers ELSE EmptyMap,
          data |-> IF o.hasResponse /\ Truthy(o.data) /\ o.data # Null
                     THEN makeSerializable(o.data)
                     ELSE MessageDoc("\"message\"", <<"\"">> \o o.message \o <<"\"">>),
          error |-> EmptyStr]
  ELSE [ok |-> FALSE, status |-> 0, statusText |-> Undefined,
        headers |-> EmptyMap, data |-> Undefined, error |-> o.message]

(***************************************************************************)
(* Findings (TestResult).  The optional fields details and severity are    *)
(* own keys of the record only when the code sets them.                    *)
(***************************************************************************)
Finding(name, status, description) ==
  [name |-> name, status |-> status, description |-> description]

WithDetails(f, details) == f @@ [details |-> details]

\* A finding left without its severity.
WithoutSeverity(f, severity) == f

WithSeverity(f, severity) == f @@ [severity |-> severity]

\* A catch block that reports medium whatever the probe.
CatchFindingMedium(name, description, message, severity) ==
  WithSeverity(WithDetails(Finding(name, "warning", description), message),
               "medium")

\* The finding a probe's own catch block returns.
CatchFinding(name, description, message, severity) ==
  WithSeverity(WithDetails(Finding(name, "warning", description), message),
               severity)

(***************************************************************************)
(* authenticationTest                                                      *)
(***************************************************************************)
\* The headers the probe sends: a copy of the caller's without the own keys
\* 'Authorization', 'x-api-key' and 'api-key'.
StrippedHeaders(headers) ==
  Delete(Delete(Delete(headers, "Authorization"), "x-api-key"), "api-key")

\* The request config of the authentication probe.
AuthRequest(endpoint) ==
  [method |-> endpoint.method, url |-> endpoint.url,
   headers |-> StrippedHeaders(endpoint.headers),
   data |-> ProbeData(endpoint)]

\* A classification that takes every 4xx answer as a rejection.
AuthClassifyAny4xx(status) ==
  IF status >= 200 /\ status < 300 THEN
    WithSeverity(WithDetails(
      Finding("Authentication Check", "failed",
              "API endpoint accessible without authentication"),
      <<"Received status code ", ToString(status),
        " without authentication headers">>), "high")
  ELSE IF status >= 400 /\ status < 500 THEN
    WithDetails(
      Finding("Authentication Check", "passed",
              "API properly requires authentication"),
      <<"Received appropriate status code ", ToString(status),
        " when authentication was removed">>)
  ELSE
    WithSeverity(WithDetails(
      Finding("Authentication Check", "warning",
              "Unexpected response when testing authentication"),
      <<"Received status code ", ToString(status),
        " which is neither a success nor an auth error">>), "medium")

\* The classification of the response status.
AuthClassify(status) ==
  IF status >= 200 /\ status < 300 THEN
    WithSeverity(WithDetails(
      Finding("Authentication Check", "failed",
              "API endpoint accessible without authentication"),
      <<"Received status code ", ToString(status),
        " without authentication headers">>), "high")
  ELSE IF status = 401 \/ status = 403 THEN
    WithDetails(
      Finding("Authentication Check", "passed",
              "API properly requires authentication"),
      <<"Received appropriate status code ", ToString(status),
        " when authentication was removed">>)
  ELSE
    WithSeverity(WithDetails(
      Finding("Authentication Check", "warning",
              "Unexpected response when testing authentication"),
      <<"Received status code ", ToString(status),
        " which is neither a success nor an auth error">>), "medium")

\* run of the authentication probe, given the outcome o of its request.
authenticationTest(o) ==
  LET response == safeAxiosRequest(o) IN
  IF response.ok THEN AuthClassify(response.status)
  ELSE CatchFinding("Authentication Check",
                    "Error occurred during authentication test",
                    response.error, "medium")

(***************************************************************************)
(* sensitiveDataTest.  The regular expressions are applied to the text     *)
(* JSON.stringify gives; on the token sequence of that text each one is a  *)
(* test on single tokens (email, card number, SSN) or on a key token       *)
(* followed by a colon and a value (password, secret, token, key).         *)
(***************************************************************************)
EmailToks == {"\"alice@example.com\""}
CardToks == {"\"4111 1111 1111 1111\"", "4111111111111111"}
SsnToks == {"\"123-45-6789\"", "123456789"}

\* The key tokens that end in the word (compared without case) and a quote.
KeyToks(word) ==
  CASE word = "password" -> {"\"password\"", "\"Password\"", "\"user_password\""}
    [] word = "secret"   -> {"\"secret\"", "\"client_secret\""}
    [] word = "token"    -> {"\"token\"", "\"access_token\""}
    [] word = "key"      -> {"\"key\"", "\"api_key\"", "\"apiKey\""}

\* word["']?\s*?:\s*?["']?[^"',\s]+ : a key token, a colon, and a value with
\* at least one character (the empty string "" gives none).
KeyValueMatch(word, text) ==
  \E i \in 1..(Len(text) - 2) :
     /\ text[i] \in KeyToks(word)
     /\ text[i + 1] = ":"
     /\ text[i + 2] # "\"\""

\* The pattern table, in its order.
sensitivePatterns ==
  <<"email", "possible credit card", "password", "secret", "token", "key", "SSN">>

\* responseStr.match(pattern) finds at least one match.
PatternMatches(type, text) ==
  CASE type = "email" -> \E i \in 1..Len(text) : text[i] \in EmailToks
    [] type = "possible credit card" -> \E i \in 1..Len(text) : text[i] \in CardToks
    [] type = "SSN" -> \E i \in 1..Len(text) : text[i] \in SsnToks
    [] OTHER -> KeyValueMatch(type, text)

\* A findings list that looks for the first six patterns only.
SensitiveFindingsWithoutSsn(text) ==
  SelectSeq(SubSeq(sensitivePatterns, 1, 6),
            LAMBDA type : PatternMatches(type, text))

\* The findings list: one line per matching pattern, in table order.
SensitiveFindings(text) ==
  SelectSeq(sensitivePatterns, LAMBDA type : PatternMatches(type, text))

\* The pieces of findings.join('\n').
RECURSIVE FindingLines(_)
FindingLines(types) ==
  IF types = <<>> THEN <<>>
  ELSE IF Len(types) = 1
    THEN <<"Found possible ", types[1], " data in response">>
  ELSE <<"Found possible ", types[1], " data in response", "\n">>
       \o FindingLines(Tail(types))

\* run of the sensitive-data probe, given the outcome o of its request.
sensitiveDataTest(o) ==
  LET response == safeAxiosRequest(o) IN
  IF ~response.ok THEN
    CatchFinding("Sensitive Data Exposure",
                 "Error occurred during sensitive data test",
                 response.error, "medium")
  ELSE LET safeData == makeSerializable(response.data) IN
    IF safeData = Undefined THEN
      \* JSON.stringify(undefined) is undefined, and .match on it throws.
      CatchFinding("Sensitive Data Exposure",
                   "Error occurred during sensitive data test",
                   <<"Cannot read properties of undefined (reading 'match')">>,
                   "medium")
    ELSE LET findings == SensitiveFindings(safeData) IN
      IF Len(findings) > 0 THEN
        WithSeverity(WithDetails(
          Finding("Sensitive Data Exposure", "failed",
                  "API may be exposing sensitive data"),
          FindingLines(findings)), "high")
      ELSE Finding("Sensitive Data Exposure", "passed",
                   "No obvious sensitive data found in response")

(***************************************************************************)
(* corsTest                                                                *)
(***************************************************************************)
\* The Origin value the probe injects, scheme and host.
InjectedOrigin == <<"https://", "malicious-site.example.com">>

\* A needle that carries the scheme of the injected origin.
ReflectionNeedleWithScheme == InjectedOrigin

\* The text the probe looks for in Access-Control-Allow-Origin.
ReflectionNeedle == <<"malicious-site.example.com">>

\* The request config of the CORS probe: OPTIONS, the caller's headers plus
\* Origin and Access-Control-Request-Method, no data.
CorsRequest(endpoint) ==
  [method |-> "OPTIONS", url |-> endpoint.url,
   headers |-> Spread(endpoint.headers,
                      MapOf({<<"Origin", InjectedOrigin>>,
                             <<"Access-Control-Request-Method",
                               <<endpoint.method>> >>})),
   data |-> Undefined]

\* `allowOrigin?.includes(needle)`: undefined gives undefined (falsy).
OptionalIncludes(value, needle) ==
  value # Undefined /\ Includes(value, needle)

\* A decision chain that tests the plain wildcard before the credentials.
CorsClassifyWildcardFirst(allowOrigin, allowCredentials) ==
  LET hasWildcard == allowOrigin = <<"*">>
      allowsCredentials == allowCredentials = <<"true">>
  IN
  IF hasWildcard THEN
    WithSeverity(WithDetails(
      Finding("CORS Configuration", "warning",
              "Permissive CORS configuration"),
      <<"API allows requests from any origin (*)">>), "medium")
  ELSE IF hasWildcard /\ allowsCredentials THEN
    WithSeverity(WithDetails(
      Finding("CORS Configuration", "failed",
              "Insecure CORS configuration detected"),
      <<"API allows wildcard origin (*) with credentials, which is a security risk">>),
      "high")
  ELSE IF OptionalIncludes(allowOrigin, ReflectionNeedle) THEN
    WithSeverity(WithDetails(
      Finding("CORS Configuration", "failed", "CORS validation issue"),
      <<"API accepts requests from untrusted origins">>), "high")
  ELSE IF ~Truthy(allowOrigin) THEN
    Finding("CORS Configuration", "passed",
            "No CORS headers found or CORS is properly restricted")
  ELSE
    WithDetails(
      Finding("CORS Configuration", "passed",
              "CORS appears to be properly configured"),
      <<"Origin: ">> \o allowOrigin)

\* The decision chain on the two headers read back.
CorsClassify(allowOrigin, allowCredentials) ==
  LET hasWildcard == allowOrigin = <<"*">>
      allowsCredentials == allowCredentials = <<"true">>
  IN
  IF hasWildcard /\ allowsCredentials THEN
    WithSeverity(WithDetails(
      Finding("CORS Configuration", "failed",
              "Insecure CORS configuration detected"),
      <<"API allows wildcard origin (*) with credentials, which is a security risk">>),
      "high")
  ELSE IF hasWildcard THEN
    WithSeverity(WithDetails(
      Finding("CORS Configuration", "warning",
              "Permissive CORS configuration"),
      <<"API allows requests from any origin (*)">>), "medium")
  ELSE IF OptionalIncludes(allowOrigin, ReflectionNeedle) THEN
    WithSeverity(WithDetails(
      Finding("CORS Configuration", "failed", "CORS validation issue"),
      <<"API accepts requests from untrusted origins">>), "high")
  ELSE IF ~Truthy(allowOrigin) THEN
    Finding("CORS Configuration", "passed",
            "No CORS headers found or CORS is properly restricted")
  ELSE
    WithDetails(
      Finding("CORS Configuration", "passed",
              "CORS appears to be properly configured"),
      <<"Origin: ">> \o allowOrigin)

\* run of the CORS probe, given the outcome o of its request.
corsTest(o) ==
  LET response == safeAxiosRequest(o) IN
  IF response.ok THEN
    CorsClassify(Get(response.headers, "access-control-allow-origin"),
                 Get(response.headers, "access-control-allow-credentials"))
  ELSE CatchFinding("CORS Configuration", "Error occurred during CORS test",
                    response.error, "low")

(***************************************************************************)
(* securityHeadersTest                                                     *)
(***************************************************************************)
\* The keys of the securityHeaders object, in declaration order, and the
\* response header each one reads.
SecurityHeaderNames ==
  <<"Strict-Transport-Security", "Content-Security-Policy",
    "X-Content-Type-Options", "X-Frame-Options", "X-XSS-Protection">>

SecurityHeaderKey(name) ==
  CASE name = "Strict-Transport-Security" -> "strict-transport-security"
    [] name = "Content-Security-Policy"   -> "content-security-policy"
    [] name = "X-Content-Type-Options"    -> "x-content-type-options"
    [] name = "X-Frame-Options"           -> "x-frame-options"
    [] name = "X-XSS-Protection"          -> "x-xss-protection"

\* Object.entries(securityHeaders).filter(([_, value]) => !value).map(key).
missingHeaders(headers) ==
  SelectSeq(SecurityHeaderNames,
            LAMBDA name : ~Truthy(Get(headers, SecurityHeaderKey(name))))

\* A classification that still warns at three missing headers.
SecurityHeadersClassifyUpToThree(missing) ==
  IF Len(missing) = 0 THEN
    Finding("Security Headers", "passed",
            "All recommended security headers are present")
  ELSE IF Len(missing) <= 3 THEN
    WithSeverity(WithDetails(
      Finding("Security Headers", "warning",
              "Some recommended security headers are missing"),
      <<"Missing headers: ">> \o Join(missing, ", ")), "medium")
  ELSE
    WithSeverity(WithDetails(
      Finding("Security Headers", "failed",
              "Multiple important security headers are missing"),
      <<"Missing headers: ">> \o Join(missing, ", ")), "high")

\* The classification by the number of missing headers.
SecurityHeadersClassify(missing) ==
  IF Len(missing) = 0 THEN
    Finding("Security Headers", "passed",
            "All recommended security headers are present")
  ELSE IF Len(missing) <= 2 THEN
    WithSeverity(WithDetails(
      Finding("Security Headers", "warning",
              "Some recommended security headers are missing"),
      <<"Missing headers: ">> \o Join(missing, ", ")), "medium")
  ELSE
    WithSeverity(WithDetails(
      Finding("Security Headers", "failed",
              "Multiple important security headers are missing"),
      <<"Missing headers: ">> \o Join(missing, ", ")), "high")

\* run of the security-headers probe, given the outcome o of its request.
securityHeadersTest(o) ==
  LET response == safeAxiosRequest(o) IN
  IF response.ok THEN SecurityHeadersClassify(missingHeaders(response.headers))
  ELSE CatchFinding("Security Headers",
                    "Error occurred during security headers test",
                    response.error, "low")

\* The request config of the probes that send the endpoint as it is
\* (sensitive-data, security-headers, rate-limit).
PlainRequest(endpoint) ==
  [method |-> endpoint.method, url |-> endpoint.url,
   headers |-> endpoint.headers, data |-> ProbeData(endpoint)]

(***************************************************************************)
(* rateLimitTest                                                           *)
(***************************************************************************)
\* The number of requests of the burst.
BurstSize == 5

\* totalTime below this many milliseconds counts as quick.
QuickMs == 1000

rateLimitHeaders ==
  {"x-rate-limit-limit", "x-rate-limit-remaining", "x-rate-limit-reset",
   "retry-after", "ratelimit-limit", "ratelimit-remaining", "ratelimit-reset"}

\* A classification that takes only 429 as the throttling status.
RateLimitClassify429Only(responses, totalTime) ==
  LET hasRateLimitHeaders ==
        \E i \in 1..Len(responses) :
           \E header \in rateLimitHeaders :
              Truthy(Get(responses[i].headers, header))
      hasRateLimitStatus ==
        \E i \in 1..Len(responses) : responses[i].status = 429
  IN
  IF hasRateLimitStatus THEN
    WithDetails(
      Finding("Rate Limiting", "passed",
              "API implements rate limiting (received 429 Too Many Requests)"),
      <<"Rate limiting is properly enforced">>)
  ELSE IF hasRateLimitHeaders THEN
    WithDetails(
      Finding("Rate Limiting", "passed", "API includes rate limit headers"),
      <<"Rate limiting appears to be implemented">>)
  ELSE IF totalTime < QuickMs
          /\ \A i \in 1..Len(responses) : responses[i].status < 400 THEN
    WithSeverity(WithDetails(
      Finding("Rate Limiting", "warning", "No rate limiting detected"),
      <<"API processed multiple requests quickly without rate limiting">>),
      "medium")
  ELSE
    WithSeverity(WithDetails(
      Finding("Rate Limiting", "warning", "Rate limiting status unclear"),
      <<"Could not definitively determine if rate limiting is implemented">>),
      "low")

\* The classification of the burst: responses is the array Promise.all
\* gives (every request answered), totalTime the elapsed milliseconds.
RateLimitClassify(responses, totalTime) ==
  LET hasRateLimitHeaders ==
        \E i \in 1..Len(responses) :
           \E header \in rateLimitHeaders :
              Truthy(Get(responses[i].headers, header))
      hasRateLimitStatus ==
        \E i \in 1..Len(responses) :
           responses[i].status = 429 \/ responses[i].status = 503
  IN
  IF hasRateLimitStatus THEN
    WithDetails(
      Finding("Rate Limiting", "passed",
              "API implements rate limiting (received 429 Too Many Requests)"),
      <<"Rate limiting is properly enforced">>)
  ELSE IF hasRateLimitHeaders THEN
    WithDetails(
      Finding("Rate Limiting", "passed", "API includes rate limit headers"),
      <<"Rate limiting appears to be implemented">>)
  ELSE IF totalTime < QuickMs
          /\ \A i \in 1..Len(responses) : responses[i].status < 400 THEN
    WithSeverity(WithDetails(
      Finding("Rate Limiting", "warning", "No rate limiting detected"),
      <<"API processed multiple requests quickly without rate limiting">>),
      "medium")
  ELSE
    WithSeverity(WithDetails(
      Finding("Rate Limiting", "warning", "Rate limiting status unclear"),
      <<"Could not definitively determine if rate limiting is implemented">>),
      "low")

\* The finding of the probe's catch block, when a request of the burst
\* throws.
RateLimitCatch(message) ==
  CatchFinding("Rate Limiting", "Error occurred during rate limit test",
               message, "low")

(***************************************************************************)
(* The registry                                                            *)
(***************************************************************************)
\* allTests: the ids of the five probes, in registry order.
allTests ==
  <<"auth-check", "sensitive-data", "cors-check", "security-headers",
    "rate-limit">>

\* test.name of a registered probe.
TestName(id) ==
  CASE id = "auth-check"       -> "Authentication Check"
    [] id = "sensitive-data"   -> "Sensitive Data Exposure"
    [] id = "cors-check"       -> "CORS Configuration"
    [] id = "security-headers" -> "Security Headers"
    [] id = "rate-limit"       -> "Rate Limiting"

\* Every probe sends a single request.
RequestCountSingle(id) == 1

\* Every single-request probe sends its request a second time.
RequestCountRetrying(id) == IF id = "rate-limit" THEN BurstSize ELSE 2

\* The number of requests one run of the probe sends.
RequestCount(id) == IF id = "rate-limit" THEN BurstSize ELSE 1

\* The config of the requests the probe sends.
ProbeRequest(id, endpoint) ==
  CASE id = "auth-check" -> AuthRequest(endpoint)
    [] id = "cors-check" -> CorsRequest(endpoint)
    [] OTHER             -> PlainRequest(endpoint)

\* A run of the authentication probe that deletes the headers from the
\* caller's own headers object.
EndpointStrippedInPlace(id, e) ==
  IF id = "auth-check"
    THEN [e EXCEPT !.headers = StrippedHeaders(e.headers)]
    ELSE e

\* The caller's endpoint object after run(endpoint) of probe id has built
\* its request(s).  The authentication probe writes to the clones
\* strippedEndpoint and strippedHeaders only (lines 191-198), the CORS probe
\* spreads the headers into a new object (lines 325-329), and the other
\* probes only read the endpoint.
EndpointAfterRun(id, e) == e

\* run of a single-request probe, given the outcome of its request.
SingleRun(id, o) ==
  CASE id = "auth-check"       -> authenticationTest(o)
    [] id = "sensitive-data"   -> sensitiveDataTest(o)
    [] id = "cors-check"       -> corsTest(o)
    [] id = "security-headers" -> securityHeadersTest(o)

(***************************************************************************)
(* The form (ApiForm.processSubmit).  The text of the headers box is a     *)
(* sequence of characters; a header name or value is the sequence of its   *)
(* characters.                                                             *)
(***************************************************************************)
\* The first position of character sep in str, or 0.
IndexOf(str, sep) ==
  IF \E i \in 1..Len(str) : str[i] = sep
    THEN CHOOSE i \in 1..Len(str) :
           str[i] = sep /\ \A j \in 1..(i - 1) : str[j] # sep
    ELSE 0

\* str.split(sep): the pieces between every occurrence of sep.
RECURSIVE Split(_, _)
Split(str, sep) ==
  IF IndexOf(str, sep) = 0 THEN <<str>>
  ELSE <<SubSeq(str, 1, IndexOf(str, sep) - 1)>>
       \o Split(SubSeq(str, IndexOf(str, sep) + 1, Len(str)), sep)

Whitespace == {" ", "\n"}

RECURSIVE TrimStart(_)
TrimStart(str) ==
  IF str # <<>> /\ str[1] \in Whitespace THEN TrimStart(Tail(str)) ELSE str

RECURSIVE TrimEnd(_)
TrimEnd(str) ==
  IF str # <<>> /\ str[Len(str)] \in Whitespace
    THEN TrimEnd(SubSeq(str, 1, Len(str) - 1))
    ELSE str

\* String.prototype.trim.
Trim(str) == TrimEnd(TrimStart(str))

\* `const [key, value] = line.split(':').map(part => part.trim())`: the
\* first two pieces; value is undefined (here: absent) when there is one.
LineParts(line) ==
  LET parts == Split(line, ":") IN
  [key |-> Trim(parts[1]),
   hasValue |-> Len(parts) >= 2,
   value |-> IF Len(parts) >= 2 THEN Trim(parts[2]) ELSE <<>>]

\* headerLines.forEach: a line with a non-empty key and value sets
\* headersObj[key] = value; the lines are taken in order.
RECURSIVE HeadersOfLines(_, _)
HeadersOfLines(lines, headersObj) ==
  IF lines = <<>> THEN headersObj
  ELSE LET p == LineParts(Head(lines)) IN
       HeadersOfLines(Tail(lines),
         IF p.key # <<>> /\ p.hasValue /\ p.value # <<>>
           THEN [k \in DOMAIN headersObj \cup {p.key} |->
                   IF k = p.key THEN p.value ELSE headersObj[k]]
           ELSE headersObj)

\* The headers processSubmit hands on for the text of the box.
ParseHeaders(text) ==
  IF Trim(text) # <<>>
    THEN HeadersOfLines(Split(text, "\n"), [k \in {} |-> <<>>])
    ELSE [k \in {} |-> <<>>]

(***************************************************************************)
(* The scan: runApiTest as a state machine.                                *)
(*                                                                         *)
(* JavaScript runs each piece of code to completion: between two awaits    *)
(* no response is handled.  pc is the orchestrator's position:             *)
(*   "start"          before the baseline request is built                 *)
(*   "awaitBaseline"  suspended at `await axios(...)`                      *)
(*   "fanout"         inside testsToRun.map, starting the probes in order  *)
(*   "awaitAll"       suspended at `await Promise.all(testPromises)`       *)
(*   "done"           the report has been returned                         *)
(***************************************************************************)
VARIABLES
  endpoint,       \* the caller's ApiEndpoint
  selectedTests,  \* the caller's list of probe ids
  remote,         \* which outcomes the remote side may produce (a scenario)
  pc,
  statusCode,     \* {} while undefined, {status} once set
  rawResponse,
  testsToRun,     \* the probes resolved from the selection
  started,        \* how many of testsToRun the map has started
  slots,          \* position in testsToRun -> the settled finding, or Pending
  raised,         \* positions whose test.run rejected
  inflight,       \* requests sent and not yet answered
  seen,           \* answered request -> the outcome axios gave
  totalTime,      \* {} or {elapsed ms of the rate-limit burst}
  sent,           \* every request config handed to axios, in order
  report,         \* <<>> until returned, then <<the ScanResult>>
  headersText,    \* the text of the form's headers box
  given,          \* the caller's ApiEndpoint as it was when the scan began
  value,          \* the value makeSerializable is called on
  once,           \* what makeSerializable(value) gave
  twice           \* what makeSerializable of that result gave

vars ==
  <<endpoint, selectedTests, remote, pc, statusCode, rawResponse, testsToRun,
    started, slots, raised, inflight, seen, totalTime, sent, report,
    headersText, given, value, once, twice>>

\* A slot of Promise.all that has not settled.
Pending == Finding("", "pending", "")

\* A request: which probe sent it ("baseline" for the initial request) and
\* its number within the probe.
Rid(by, n) == [by |-> by, n |-> n]

\* Results appended as the probes complete: the first slot still open.
PositionByCompletion(id) ==
  CHOOSE i \in 1..Len(slots) :
     slots[i] = Pending /\ \A j \in 1..(i - 1) : slots[j] # Pending

\* The position of a probe in testsToRun.
PositionOf(id) == CHOOSE i \in 1..Len(testsToRun) : testsToRun[i] = id

\* A resolution without the "empty means all" default.
FilterTestsNoDefault(selected) ==
  SelectSeq(allTests, LAMBDA id : \E i \in 1..Len(selected) : selected[i] = id)

\* A resolution that runs every probe when no selected id is registered.
FilterTestsFallsBack(selected) ==
  LET chosen == SelectSeq(allTests,
                   LAMBDA id : \E i \in 1..Len(selected) : selected[i] = id)
  IN IF Len(chosen) > 0 THEN chosen ELSE allTests

\* `selectedTests.length > 0 ? allTests.filter(test =>
\*    selectedTests.includes(test.id)) : allTests`
FilterTests(selected) ==
  IF Len(selected) > 0
    THEN SelectSeq(allTests,
                   LAMBDA id : \E i \in 1..Len(selected) : selected[i] = id)
    ELSE allTests

\* The config of the baseline request (its data is JSON.parse of the body).
BaselineRequest(e) ==
  [method |-> e.method, url |-> e.url, headers |-> e.headers,
   data |-> IF Truthy(e.body) THEN JsonParse(e.body) ELSE Undefined]

\* A fallback that copies the severity the probes' own catch blocks of the
\* CORS, security-headers and rate-limit probes use.
FallbackFindingLow(name, message) ==
  WithSeverity(WithDetails(
    Finding(name, "warning", "Test execution failed"), message), "low")

\* The fallback finding of the orchestrator's catch around test.run.
FallbackFinding(name, message) ==
  WithSeverity(WithDetails(
    Finding(name, "warning", "Test execution failed"), message), "medium")

\* A document that keeps the message under the key "message".
ErrorDocAsMessage(message) ==
  MessageDoc("\"message\"", <<"\"">> \o message \o <<"\"">>)

\* The document { error: message } kept as rawResponse.
ErrorDoc(message) == MessageDoc("\"error\"", <<"\"">> \o message \o <<"\"">>)

(***************************************************************************)
(* The environment: the callers' inputs and the outcomes the remote side   *)
(* and the network may give to a request.                                  *)
(***************************************************************************)
\* Status codes a server may answer with.
MinStatus == 100
MaxStatus == 599

\* The most headers a caller's endpoint carries.
MaxHeaders == 2

\* Header names a caller may type, in several spellings.
CallerHeaderNames ==
  {"Authorization", "authorization", "x-api-key", "X-API-Key", "api-key",
   "Content-Type"}

CallerHeaderValue(name) ==
  IF name = "Content-Type" THEN <<"application/json">>
  ELSE <<"credential of ", name>>

CallerHeaders(names) == [k \in names |-> CallerHeaderValue(k)]

ValidBody == <<"{", "\"a\"", ":", "1", "}">>
InvalidBody == <<"{", "a", ":", "1", "}">>
Url == <<"https://", "api.example.com", "/v1/users">>

Endpoint(method, headers, body) ==
  [url |-> Url, method |-> method, headers |-> headers, body |-> body]

\* The endpoints of the whole-scan scenario.
ScanEndpoints ==
  {Endpoint("POST", CallerHeaders({"Authorization", "Content-Type"}), ValidBody),
   Endpoint("POST", CallerHeaders({"authorization"}), InvalidBody)}

\* The endpoints of the single-probe scenario: every header set up to
\* MaxHeaders for the authentication probe, one endpoint for the burst.
ProbeEndpoints(id) ==
  IF id = "auth-check"
    THEN {Endpoint("POST", CallerHeaders(names), body) :
            names \in {n \in SUBSET CallerHeaderNames : Cardinality(n) <= MaxHeaders},
            body \in {ValidBody, InvalidBody}}
  ELSE IF id = "rate-limit"
    THEN {Endpoint("POST", CallerHeaders({"x-api-key"}), ValidBody)}
    ELSE {Endpoint("GET", CallerHeaders({"Authorization"}), Undefined),
          Endpoint("GET", EmptyMap, EmptyStr),
          Endpoint("POST", CallerHeaders({"x-api-key"}), InvalidBody)}

Reverse(xs) == [i \in 1..Len(xs) |-> xs[Len(xs) + 1 - i]]

\* The registered ids of a set, as a list in registry order.
ListOf(ids) == SelectSeq(allTests, LAMBDA id : id \in ids)

RegisteredIds == {allTests[i] : i \in 1..Len(allTests)}

\* The selections of the whole-scan scenario: every subset of the registered
\* ids listed in registry order, and every pair in the opposite order.
ScanSelections ==
  {ListOf(ids) : ids \in SUBSET RegisteredIds}
    \cup {Reverse(ListOf(ids)) :
            ids \in {p \in SUBSET RegisteredIds : Cardinality(p) = 2}}

\* Documents a server may answer with.
PlainDoc == <<"{", "\"id\"", ":", "1", "}">>
Docs ==
  {PlainDoc,
   <<"{", "\"password\"", ":", "\"abc123\"", "}">>,
   <<"{", "\"password\"", ":", "\"\"", "}">>,
   <<"{", "\"email\"", ":", "\"alice@example.com\"", ",",
     "\"api_key\"", ":", "\"k1\"", "}">>,
   <<"{", "\"ssn\"", ":", "\"123-45-6789\"", ",",
     "\"card\"", ":", "4111111111111111", "}">>,
   <<"{", "\"access_token\"", ":", "\"t\"", ",",
     "\"client_secret\"", ":", "\"s\"", "}">>,
   <<"{", "\"password\"", ":", "\"a\"", ",",
     "\"user_password\"", ":", "\"b\"", ",",
     "\"owner\"", ":", "\"alice@example.com\"", "}">>,
   BigIntDoc}

\* A header map from an assignment in which Undefined marks a missing key.
HeadersFrom(f) == [k \in {k \in DOMAIN f : f[k] # Undefined} |-> f[k]]

\* Access-Control-Allow-Origin and -Credentials values a server may send.
AllowOriginValues ==
  {Undefined, EmptyStr, <<"*">>, <<"null">>,
   <<"https://", "trusted.example.com">>,
   <<"https://", "malicious-site.example.com">>,
   <<"http://", "malicious-site.example.com">>,
   <<"https://", "malicious-site.example.com", ".attacker.example">>,
   <<"https://", "api.", "malicious-site.example.com">>}

AllowCredentialsValues == {Undefined, <<"true">>, <<"false">>, <<"TRUE">>}

CorsServerHeaders ==
  {HeadersFrom([k \in {"access-control-allow-origin",
                       "access-control-allow-credentials"} |->
                  IF k = "access-control-allow-origin" THEN o ELSE c]) :
     o \in AllowOriginValues, c \in AllowCredentialsValues}

\* Every combination of missing, empty and set security headers.
SecurityServerHeaders ==
  {HeadersFrom(f) :
     f \in [{SecurityHeaderKey(SecurityHeaderNames[i]) :
               i \in 1..Len(SecurityHeaderNames)} ->
            {Undefined, EmptyStr, <<"on">>}]}

PlainOk == HttpResponse(200, EmptyMap, PlainDoc)
Down == AxiosError(<<"Network Error">>)
Thrown == OtherError(<<"Invalid URL">>)
BadGateway ==
  AxiosErrorWithResponse(<<"Request failed with status code 502">>, 502,
                         MapOf({<<"retry-after", <<"1">> >>}), PlainDoc)

\* The outcomes a request of probe `by` may get in scenario r.
Outcomes(r, by) ==
  IF r = "scan" THEN {PlainOk, Down}
  ELSE IF r = "inject"
    THEN (IF by \in {"baseline", "rate-limit"} THEN {PlainOk}
          ELSE {PlainOk, Down})
  ELSE IF r = "baseline"
    THEN (IF by = "baseline"
            THEN {HttpResponse(st, EmptyMap, PlainDoc) :
                    st \in MinStatus..MaxStatus}
                   \cup {Down, Thrown, BadGateway}
            ELSE {PlainOk})
  ELSE CASE by = "baseline" -> {PlainOk, Down}
    [] by = "auth-check" ->
         {HttpResponse(st, EmptyMap, PlainDoc) : st \in MinStatus..MaxStatus}
           \cup {Down, Thrown, BadGateway}
    [] by = "sensitive-data" ->
         {HttpResponse(200, EmptyMap, d) : d \in Docs} \cup {Down, Thrown}
    [] by = "cors-check" ->
         {HttpResponse(204, h, EmptyStr) : h \in CorsServerHeaders}
           \cup {Down, Thrown}
    [] by = "security-headers" ->
         {HttpResponse(200, h, PlainDoc) : h \in SecurityServerHeaders}
           \cup {Down, Thrown}
    [] by = "rate-limit" ->
         {PlainOk, Down, Thrown,
          HttpResponse(429, EmptyMap, PlainDoc),
          HttpResponse(503, EmptyMap, PlainDoc),
          HttpResponse(400, EmptyMap, PlainDoc),
          HttpResponse(200, MapOf({<<"x-rate-limit-remaining", <<"9">> >>}),
                       PlainDoc),
          HttpResponse(200, MapOf({<<"retry-after", EmptyStr>>}), PlainDoc)}

\* Elapsed times of the burst the clock may show.
ElapsedTimes == {QuickMs - 1, QuickMs}

\* Messages of the errors an injected faulty probe raises.
InjectedMessages == {<<"probe crashed">>}

(***************************************************************************)
(* Initial states                                                          *)
(***************************************************************************)
\* No call of makeSerializable on a structured value is being followed.
NoValue == Leaf("none", "")

NotCalled == [raised |-> FALSE, value |-> NoValue]

InitRun ==
  /\ pc = "start"
  /\ statusCode = {}
  /\ rawResponse = Undefined
  /\ testsToRun = <<>>
  /\ started = 0
  /\ slots = <<>>
  /\ raised = {}
  /\ inflight = {}
  /\ seen = [r \in {} |-> PlainOk]
  /\ totalTime = {}
  /\ sent = <<>>
  /\ report = <<>>
  /\ headersText = <<>>
  /\ given = endpoint
  /\ value = NoValue
  /\ once = NotCalled
  /\ twice = NotCalled

\* A whole scan: any selection, a few endpoints, each request answered or
\* failing at transport level.
Init ==
  /\ remote = "scan"
  /\ endpoint \in ScanEndpoints
  /\ selectedTests \in ScanSelections
  /\ InitRun

\* One probe selected, with every response the probe distinguishes.
InitProbe ==
  /\ remote = "probe"
  /\ \E id \in RegisteredIds :
        /\ selectedTests = <<id>>
        /\ endpoint \in ProbeEndpoints(id)
  /\ InitRun

\* A whole scan in which the run of any probe may be made to raise.
InitInject ==
  /\ remote = "inject"
  /\ endpoint \in ScanEndpoints
  /\ selectedTests \in {ListOf(ids) : ids \in SUBSET RegisteredIds}
  /\ InitRun

\* A whole scan whose baseline request gets any status or fails in any way.
InitBaseline ==
  /\ remote = "baseline"
  /\ endpoint \in ScanEndpoints
  /\ selectedTests \in {<<>>, <<"cors-check", "auth-check">>}
  /\ InitRun

\* The values makeSerializable is called on: a leaf, or a container of one
\* or two members, each a leaf, a reference to the container itself, or an
\* inner container whose members are leaves or references to itself or to
\* the outer container.
SerializableLeaves == {NumberLeaf, BigIntLeaf, NullLeaf}

ContainersOf(members) ==
  {Container(t, <<x>>) : t \in {"object", "array"}, x \in members}
    \cup {Container(t, <<x, y>>) :
            t \in {"object", "array"}, x \in members, y \in members}

InnerContainers == ContainersOf(SerializableLeaves \cup {Up(1), Up(2)})

Values ==
  SerializableLeaves
    \cup ContainersOf(SerializableLeaves \cup {Up(1)} \cup InnerContainers)

\* makeSerializable called on a value, and then on its own result.
InitSerialize ==
  /\ remote = "serialize"
  /\ endpoint = Endpoint("GET", EmptyMap, EmptyStr)
  /\ selectedTests = <<>>
  /\ pc = "serialize"
  /\ statusCode = {}
  /\ rawResponse = Undefined
  /\ testsToRun = <<>>
  /\ started = 0
  /\ slots = <<>>
  /\ raised = {}
  /\ inflight = {}
  /\ seen = [r \in {} |-> PlainOk]
  /\ totalTime = {}
  /\ sent = <<>>
  /\ report = <<>>
  /\ headersText = <<>>
  /\ given = endpoint
  /\ value \in Values
  /\ once = NotCalled
  /\ twice = NotCalled

\* Endpoints that carry each of the credentials the authentication probe
\* looks for.
CredentialEndpoints ==
  {Endpoint("POST", CallerHeaders({"Authorization", "x-api-key"}), ValidBody),
   Endpoint("POST", CallerHeaders({"api-key", "Content-Type"}), InvalidBody),
   Endpoint("GET", CallerHeaders({"X-API-Key"}), Undefined)}

\* A whole scan of an endpoint that carries credentials.
InitCredentials ==
  /\ remote = "scan"
  /\ endpoint \in CredentialEndpoints
  /\ selectedTests \in {<<>>, <<"auth-check", "cors-check">>,
                         <<"rate-limit", "auth-check">>}
  /\ InitRun

\* The longest selection list of the selection scenario.
MaxSelected == 3

\* Ids a caller may put in the list: registered ones and one that is not.
SelectableIds == {"auth-check", "rate-limit", "no-such-test"}

\* A whole scan with a non-empty selection list in any order, with
\* repetitions and ids that are not registered.
InitSelection ==
  /\ remote = "scan"
  /\ endpoint \in ScanEndpoints
  /\ selectedTests \in UNION {[1..n -> SelectableIds] : n \in 1..MaxSelected}
  /\ InitRun

\* The longest line typed into the headers box.
MaxLine == 5

\* The characters typed: two letters, the colon and the blank.
TypedChars == {"a", "b", ":", " "}

TypedLines == UNION {[1..n -> TypedChars] : n \in 0..MaxLine}

\* The texts of the headers box: one line, or a line followed by a second.
TypedTexts ==
  TypedLines
    \cup {first \o <<"\n">> \o second :
            first \in TypedLines,
            second \in {<<>>, <<"a", ":", "b">>, <<"b", ":", " ", "a">>}}

\* The form is filled in and about to be submitted.
InitForm ==
  /\ remote = "form"
  /\ endpoint = Endpoint("GET", EmptyMap, EmptyStr)
  /\ selectedTests = allTests
  /\ pc = "form"
  /\ statusCode = {}
  /\ rawResponse = Undefined
  /\ testsToRun = <<>>
  /\ started = 0
  /\ slots = <<>>
  /\ raised = {}
  /\ inflight = {}
  /\ seen = [r \in {} |-> PlainOk]
  /\ totalTime = {}
  /\ sent = <<>>
  /\ report = <<>>
  /\ headersText \in TypedTexts
  /\ given = endpoint
  /\ value = NoValue
  /\ once = NotCalled
  /\ twice = NotCalled

(***************************************************************************)
(* Actions                                                                 *)
(***************************************************************************)
\* The synchronous code after the baseline try/catch: resolve the probes to
\* run and enter the map.
EnterFanout ==
  /\ testsToRun' = FilterTests(selectedTests)
  /\ slots' = [i \in 1..Len(FilterTests(selectedTests)) |-> Pending]
  /\ pc' = "fanout"

\* Lines 53-61, the body parses (or there is none): the baseline request is
\* handed to axios and the orchestrator awaits it.
SendBaseline ==
  /\ pc = "start"
  /\ Truthy(endpoint.body) => JsonParses(endpoint.body)
  /\ sent' = Append(sent, [by |-> "baseline"] @@ BaselineRequest(endpoint))
  /\ inflight' = inflight \cup {Rid("baseline", 1)}
  /\ pc' = "awaitBaseline"
  /\ UNCHANGED <<headersText, given, value, once, twice, endpoint, selectedTests, remote, statusCode, rawResponse,
                 testsToRun, started, slots, raised, seen, totalTime, report>>

\* Lines 58 and 67-75: JSON.parse of the body throws while the config is
\* built; the catch records the error and the scan goes on, no request sent.
BaselineParseError ==
  /\ pc = "start"
  /\ Truthy(endpoint.body) /\ ~JsonParses(endpoint.body)
  /\ rawResponse' = ErrorDoc(SyntaxErrorMessage)
  /\ EnterFanout
  /\ UNCHANGED <<headersText, given, value, once, twice, endpoint, selectedTests, remote, statusCode, started, raised,
                 inflight, seen, totalTime, sent, report>>

\* Lines 63-75: the baseline request settles.  A response of any status
\* sets statusCode and rawResponse; a rejection sets rawResponse to
\* { error: message }.
BaselineSettles ==
  /\ pc = "awaitBaseline"
  /\ \E o \in Outcomes(remote, "baseline") :
        /\ seen' = (Rid("baseline", 1) :> o) @@ seen
        /\ IF o.kind = "response"
             THEN /\ statusCode' = {o.status}
                  /\ rawResponse' = makeSerializable(o.data)
             ELSE /\ statusCode' = statusCode
                  /\ rawResponse' = ErrorDoc(o.message)
  /\ inflight' = inflight \ {Rid("baseline", 1)}
  /\ EnterFanout
  /\ UNCHANGED <<headersText, given, value, once, twice, endpoint, selectedTests, remote, started, raised, totalTime,
                 sent, report>>

\* Lines 83-85, one step of the map: test.run(endpoint) of the next probe
\* runs up to its first await, which hands its request(s) to axios.
StartProbe ==
  /\ pc = "fanout"
  /\ started < Len(testsToRun)
  /\ LET id == testsToRun[started + 1] IN
       /\ sent' = sent \o [k \in 1..RequestCount(id) |->
                             [by |-> id] @@ ProbeRequest(id, endpoint)]
       /\ inflight' = inflight \cup {Rid(id, k) : k \in 1..RequestCount(id)}
       /\ endpoint' = EndpointAfterRun(id, endpoint)
  /\ started' = started + 1
  /\ UNCHANGED <<headersText, given, value, once, twice, selectedTests, remote, pc,
                 statusCode, rawResponse, testsToRun, slots, raised, seen,
                 totalTime, report>>

\* Line 99: every probe is started; the orchestrator suspends at
\* Promise.all.
AwaitAll ==
  /\ pc = "fanout"
  /\ started = Len(testsToRun)
  /\ pc' = "awaitAll"
  /\ UNCHANGED <<headersText, given, value, once, twice, endpoint, selectedTests, remote, statusCode, rawResponse,
                 testsToRun, started, slots, raised, inflight, seen, totalTime,
                 sent, report>>

\* The request of a single-request probe settles; the probe classifies and
\* its promise, and with it its slot of Promise.all, is fulfilled.
ProbeSettles ==
  /\ pc = "awaitAll"
  /\ \E rid \in inflight :
        /\ rid.by \in {"auth-check", "sensitive-data", "cors-check",
                       "security-headers"}
        /\ \E o \in Outcomes(remote, rid.by) :
              /\ seen' = (rid :> o) @@ seen
              /\ slots' = [slots EXCEPT ![PositionOf(rid.by)] =
                                          SingleRun(rid.by, o)]
        /\ inflight' = inflight \ {rid}
  /\ UNCHANGED <<headersText, given, value, once, twice, endpoint, selectedTests, remote, pc, statusCode, rawResponse,
                 testsToRun, started, raised, totalTime, sent, report>>

\* The responses array of the burst: what safeAxiosRequest gave for each
\* request, in the order the requests were pushed.
BurstResponses(s) ==
  [k \in 1..BurstSize |-> safeAxiosRequest(s[Rid("rate-limit", k)])]

\* Whether the answer to request rid of the burst may be the next to arrive.
\* In the single-probe scenario the answers arrive in any order.  In the
\* whole-scan scenarios they are taken in request order: the probe reads
\* only the array Promise.all builds, which is indexed by request and does
\* not depend on the order of arrival.
MayArrive(r, rid, flying) ==
  r = "probe" \/ \A other \in flying : other.by = rid.by => rid.n <= other.n

\* One request of the rate-limit burst settles.  A thrown error rejects
\* Promise.all at once and the probe's catch gives the finding; the last
\* answer of five lets the probe classify; an answer that arrives after the
\* probe has settled is dropped.
BurstSettles ==
  /\ pc \in {"awaitAll", "done"}
  /\ \E rid \in inflight :
        /\ rid.by = "rate-limit"
        /\ MayArrive(remote, rid, inflight)
        /\ inflight' = inflight \ {rid}
        /\ \E o \in Outcomes(remote, "rate-limit"), t \in ElapsedTimes :
             LET pos == PositionOf("rate-limit")
                 now == (rid :> o) @@ seen
                 last == \A k \in 1..BurstSize : Rid("rate-limit", k) \in DOMAIN now
             IN
             IF slots[pos] # Pending THEN
               UNCHANGED <<seen, slots, totalTime>>
             ELSE IF ~safeAxiosRequest(o).ok THEN
               /\ seen' = now
               /\ slots' = [slots EXCEPT ![pos] =
                              RateLimitCatch(safeAxiosRequest(o).error)]
               /\ UNCHANGED totalTime
             ELSE IF last THEN
               /\ seen' = now
               /\ totalTime' = {t}
               /\ slots' = [slots EXCEPT ![pos] =
                              RateLimitClassify(BurstResponses(now), t)]
             ELSE
               /\ seen' = now
               /\ UNCHANGED <<slots, totalTime>>
  /\ UNCHANGED <<headersText, given, value, once, twice, endpoint, selectedTests, remote, pc, statusCode, rawResponse,
                 testsToRun, started, raised, sent, report>>

\* A return as soon as one probe has settled.
ReturnEarly ==
  /\ pc = "awaitAll"
  /\ \E i \in 1..Len(slots) : slots[i] # Pending
  /\ report' = <<[endpoint |-> endpoint, results |-> slots,
                  rawResponse |-> rawResponse, statusCode |-> statusCode]>>
  /\ pc' = "done"
  /\ UNCHANGED <<headersText, given, value, once, twice, endpoint, selectedTests, remote,
                 statusCode, rawResponse, testsToRun, started, slots, raised,
                 inflight, seen, totalTime, sent>>

\* Lines 99-113: every slot has settled; the report is assembled and
\* returned.
Return ==
  /\ pc = "awaitAll"
  /\ \A i \in 1..Len(slots) : slots[i] # Pending
  /\ report' = <<[endpoint |-> endpoint, results |-> slots,
                  rawResponse |-> rawResponse, statusCode |-> statusCode]>>
  /\ pc' = "done"
  /\ UNCHANGED <<headersText, given, value, once, twice, endpoint, selectedTests, remote, statusCode, rawResponse,
                 testsToRun, started, slots, raised, inflight, seen, totalTime,
                 sent>>

\* Fault injection (lines 86-96): the run of a started probe rejects when an
\* answer arrives; the orchestrator's catch puts the fallback finding in the
\* probe's slot.
ProbeRaises ==
  /\ pc = "awaitAll"
  /\ \E rid \in inflight :
        /\ slots[PositionOf(rid.by)] = Pending
        /\ MayArrive(remote, rid, inflight)
        /\ \E o \in Outcomes(remote, rid.by), message \in InjectedMessages :
              /\ seen' = (rid :> o) @@ seen
              /\ slots' = [slots EXCEPT ![PositionOf(rid.by)] =
                             FallbackFinding(TestName(rid.by), message)]
        /\ raised' = raised \cup {PositionOf(rid.by)}
        /\ inflight' = inflight \ {rid}
  /\ UNCHANGED <<headersText, given, value, once, twice, endpoint, selectedTests, remote, pc, statusCode, rawResponse,
                 testsToRun, started, totalTime, sent, report>>

Next ==
  \/ SendBaseline
  \/ BaselineParseError
  \/ BaselineSettles
  \/ StartProbe
  \/ AwaitAll
  \/ ProbeSettles
  \/ BurstSettles
  \/ Return

Spec == Init /\ [][Next]_vars

SpecProbe == InitProbe /\ [][Next]_vars

SpecBaseline == InitBaseline /\ [][Next]_vars

SpecCredentials == InitCredentials /\ [][Next]_vars

SpecSelection == InitSelection /\ [][Next]_vars

NextInject == Next \/ ProbeRaises

\* makeSerializable(value) is called.
Serialize ==
  /\ pc = "serialize"
  /\ once' = makeSerializableValue(value)
  /\ pc' = "serialized"
  /\ UNCHANGED <<headersText, given, value, twice, endpoint, selectedTests, remote, statusCode,
                 rawResponse, testsToRun, started, slots, raised, inflight,
                 seen, totalTime, sent, report>>

\* makeSerializable is called on the value the first call returned.
SerializeAgain ==
  /\ pc = "serialized"
  /\ ~once.raised
  /\ twice' = makeSerializableValue(once.value)
  /\ pc' = "reserialized"
  /\ UNCHANGED <<headersText, given, value, once, endpoint, selectedTests, remote, statusCode,
                 rawResponse, testsToRun, started, slots, raised, inflight,
                 seen, totalTime, sent, report>>

NextSerialize == Serialize \/ SerializeAgain

\* ApiForm.processSubmit (lines 37-60): the headers of the endpoint are
\* replaced by the ones parsed from the text, and the form data is handed on.
ProcessSubmit ==
  /\ pc = "form"
  /\ endpoint' = [endpoint EXCEPT !.headers = ParseHeaders(headersText)]
  /\ pc' = "submitted"
  /\ UNCHANGED <<headersText, given, value, once, twice, selectedTests,
                 remote, statusCode, rawResponse, testsToRun, started, slots,
                 raised, inflight, seen, totalTime, sent, report>>

NextForm == ProcessSubmit

SpecForm == InitForm /\ [][NextForm]_vars

SpecSerialize == InitSerialize /\ [][NextSerialize]_vars

SpecInject == InitInject /\ [][NextInject]_vars

\* One probe selected, every response it distinguishes, and its run may be
\* made to raise.
SpecProbeInject == InitProbe /\ [][NextInject]_vars

\* The whole scan with every enabled step eventually taken: each request
\* handed to axios settles (the 30 s timeout at the latest) and the event
\* loop runs every continuation that is ready.
FairSpec == Spec /\ WF_vars(Next)

(***************************************************************************)
(* Properties                                                              *)
(***************************************************************************)
\* The results list of the returned report.
Results == report[1].results

Returned == report # <<>>

\* The registered ids of the selection, in registry order; all five for the
\* empty selection.
SelectedIds == {selectedTests[i] : i \in 1..Len(selectedTests)}

SelectionOrder ==
  IF selectedTests = <<>> THEN allTests ELSE ListOf(SelectedIds)

\* The finding the run of probe id gives on the outcomes its own requests
\* got, whatever the other probes did.
ObservedFinding(id) ==
  IF id # "rate-limit" THEN SingleRun(id, seen[Rid(id, 1)])
  ELSE IF \E k \in 1..BurstSize :
            /\ Rid(id, k) \in DOMAIN seen
            /\ ~safeAxiosRequest(seen[Rid(id, k)]).ok
    THEN RateLimitCatch(
           safeAxiosRequest(
             seen[CHOOSE r \in DOMAIN seen :
                    r.by = id /\ ~safeAxiosRequest(seen[r]).ok]).error)
  ELSE RateLimitClassify(BurstResponses(seen), CHOOSE t \in totalTime : TRUE)

\* A request failed at transport level (no response was received).
TransportFailure(o) == o.kind = "axiosError" /\ ~o.hasResponse

\* C1: for every selection of registered ids and every outcome of the
\* requests, the results list of the returned report has 5 entries for the
\* empty selection and as many entries as the selection has ids otherwise;
\* and the scan can always go on until it has returned.
C1_ResultCount ==
  /\ Returned =>
       Len(Results) =
         IF selectedTests = <<>> THEN 5 ELSE Cardinality(SelectedIds)
  /\ pc # "done" => ENABLED Next

\* C1 witness: the empty selection, a request that failed at transport
\* level, and a report with five results.
C1_Witness ==
  /\ Returned
  /\ selectedTests = <<>>
  /\ Len(Results) = 5
  /\ \E r \in DOMAIN seen : TransportFailure(seen[r])

\* C2: every settled entry, and so every entry of the returned results, is
\* at the position its probe has in registry order among the selected ones,
\* carries that probe's registered name and is the finding of that probe,
\* whatever the order of completion and of the ids in the selection.
C2_RegistryOrder ==
  /\ \A i \in 1..Len(slots) :
        slots[i] # Pending =>
          /\ slots[i].name = TestName(SelectionOrder[i])
          /\ slots[i] = ObservedFinding(SelectionOrder[i])
  /\ Returned =>
       /\ Len(Results) = Len(SelectionOrder)
       /\ \A i \in 1..Len(Results) :
             /\ Results[i].name = TestName(SelectionOrder[i])
             /\ Results[i] = ObservedFinding(SelectionOrder[i])

\* C2 witness: the selection lists two ids against registry order, and the
\* probe registered later has completed while the earlier one has not.
C2_Witness ==
  /\ Len(selectedTests) = 2
  /\ Len(slots) = 2
  /\ selectedTests[1] = SelectionOrder[2]
  /\ slots[1] = Pending
  /\ slots[2] # Pending

\* C3: when the run of a selected probe raises, the scan still returns a
\* full report: the entry of each probe that raised is the fallback finding
\* (the probe's name, warning, "Test execution failed", the error text,
\* medium), and the entry of every other probe is, at its own position, the
\* finding that probe gives on its own responses, as without the failure.
C3_RaiseIsolated ==
  /\ Returned =>
       /\ Len(Results) = Len(SelectionOrder)
       /\ \A i \in 1..Len(Results) :
             IF i \in raised
               THEN /\ DOMAIN Results[i] =
                         {"name", "status", "description", "details", "severity"}
                    /\ Results[i].name = TestName(SelectionOrder[i])
                    /\ Results[i].status = "warning"
                    /\ Results[i].description = "Test execution failed"
                    /\ Results[i].details \in InjectedMessages
                    /\ Results[i].severity = "medium"
               ELSE Results[i] = ObservedFinding(SelectionOrder[i])
  /\ (raised # {} /\ pc # "done") => ENABLED NextInject

\* C3 witness: a report is returned in which one probe raised and the
\* probes before and after it did not.
C3_Witness ==
  /\ Returned
  /\ Len(Results) = 5
  /\ raised = {3}
  /\ Results[2].status = "passed"
  /\ Results[4].status = "failed"

\* Every request of the scan was answered, and each one by a transport
\* failure.
AllRequestsFailed ==
  /\ inflight = {}
  /\ DOMAIN seen # {}
  /\ \A r \in DOMAIN seen : TransportFailure(seen[r])

\* The entry of probe id in the returned results.
ResultOf(id) ==
  Results[CHOOSE i \in 1..Len(Results) : SelectionOrder[i] = id]

\* C4 as stated: when every request of a scan fails at transport level,
\* every finding of the returned report has status warning.
C4_AllWarnings ==
  (Returned /\ AllRequestsFailed) =>
     \A i \in 1..Len(Results) : Results[i].status = "warning"

\* C4 as amended: when every request of a scan fails at transport level the
\* report still has one finding per selected probe; the authentication
\* finding is warning/medium and the rate-limit finding warning/low, but the
\* CORS finding is passed (no Allow-Origin in the empty headers), the
\* security-headers finding is failed/high naming all five headers, and the
\* sensitive-data finding is passed or failed by the patterns applied to
\* the error payload, never warning.
C4_TransportFailureFindings ==
  (Returned /\ AllRequestsFailed) =>
     /\ Len(Results) = Len(SelectionOrder)
     /\ \A i \in 1..Len(Results) :
          LET f == Results[i] IN
          CASE SelectionOrder[i] = "auth-check" ->
                 f.status = "warning" /\ f.severity = "medium"
            [] SelectionOrder[i] = "rate-limit" ->
                 f.status = "warning" /\ f.severity = "low"
            [] SelectionOrder[i] = "cors-check" ->
                 f.status = "passed" /\ DOMAIN f = {"name", "status", "description"}
            [] SelectionOrder[i] = "security-headers" ->
                 /\ f.status = "failed" /\ f.severity = "high"
                 /\ f.details = <<"Missing headers: ">>
                                  \o Join(SecurityHeaderNames, ", ")
            [] SelectionOrder[i] = "sensitive-data" ->
                 /\ f.status \in {"passed", "failed"}
                 /\ f.status = "passed" <=>
                      \A k \in 1..Len(sensitivePatterns) :
                         ~PatternMatches(sensitivePatterns[k],
                            safeAxiosRequest(seen[Rid("sensitive-data", 1)]).data)

\* C4 witness: all five probes ran, the baseline and every probe request
\* failed at transport level, and the report was returned.
C4_Witness ==
  /\ Returned
  /\ AllRequestsFailed
  /\ Len(Results) = 5
  /\ Rid("baseline", 1) \in DOMAIN seen
  /\ ResultOf("cors-check").status = "passed"

\* The endpoint has a body and JSON.parse rejects it.
BodyIsInvalidJson == Truthy(endpoint.body) /\ ~JsonParses(endpoint.body)

\* C5 as stated: when the body is not valid JSON no HTTP request is ever
\* sent, baseline or probe, and no report is returned (the caller gets an
\* error instead).
C5_InvalidBodySendsNothing ==
  BodyIsInvalidJson => (sent = <<>> /\ ~Returned)

\* C5 as amended: when the body is not valid JSON the baseline request is
\* never sent and no statusCode is set, and once the probes are resolved
\* rawResponse is { error: <message> }; but no error reaches the caller:
\* every selected probe sends its requests, with null as data (the CORS probe
\* sends no data), and the scan goes on to return a full report.
C5_InvalidBodySkipsBaselineOnly ==
  BodyIsInvalidJson =>
    /\ \A i \in 1..Len(sent) :
          /\ sent[i].by # "baseline"
          /\ sent[i].data = IF sent[i].by = "cors-check" THEN Undefined ELSE Null
    /\ statusCode = {}
    /\ pc # "start" => rawResponse = ErrorDoc(SyntaxErrorMessage)
    /\ pc \in {"awaitAll", "done"} =>
          \A i \in 1..Len(SelectionOrder) :
             Cardinality({k \in 1..Len(sent) : sent[k].by = SelectionOrder[i]})
               = RequestCount(SelectionOrder[i])
    /\ pc # "done" => ENABLED Next
    /\ pc = "done" => (Returned /\ Len(Results) = Len(SelectionOrder))

\* C5 witness: a scan of an endpoint with an invalid body has returned a
\* report of five findings after sending the probes' nine requests.
C5_Witness ==
  /\ BodyIsInvalidJson
  /\ Returned
  /\ Len(Results) = 5
  /\ Len(sent) = 9

\* A header name in lower case (names compare without case in HTTP).
LowerCase(name) ==
  CASE name \in {"Authorization", "authorization"} -> "authorization"
    [] name \in {"x-api-key", "X-API-Key"} -> "x-api-key"
    [] name = "api-key" -> "api-key"
    [] name = "Content-Type" -> "content-type"
    [] name = "Strict-Transport-Security" -> "strict-transport-security"
    [] name = "Content-Security-Policy" -> "content-security-policy"
    [] name = "X-Content-Type-Options" -> "x-content-type-options"
    [] name = "X-Frame-Options" -> "x-frame-options"
    [] name = "X-XSS-Protection" -> "x-xss-protection"
    [] OTHER -> name

AuthHeaderNames == {"authorization", "x-api-key", "api-key"}

\* C6: the request of the authentication probe carries no header whose
\* name is Authorization, x-api-key or api-key compared without case, and
\* carries every other header of the caller with its value.
C6_AuthHeadersRemovedAnyCase ==
  \A i \in 1..Len(sent) :
     sent[i].by = "auth-check" =>
       /\ \A k \in DOMAIN sent[i].headers : LowerCase(k) \notin AuthHeaderNames
       /\ \A k \in DOMAIN endpoint.headers :
             LowerCase(k) \notin AuthHeaderNames =>
               /\ k \in DOMAIN sent[i].headers
               /\ sent[i].headers[k] = endpoint.headers[k]

\* The status a probe observes for outcome o: the status received, or the
\* synthesized 500 when the request failed without a response.
ObservedStatus(o) ==
  IF o.kind = "response" \/ o.hasResponse THEN o.status ELSE 500

\* The headers a probe observes for outcome o (none after a failure).
ObservedHeaders(o) ==
  IF o.kind = "response" \/ o.hasResponse THEN o.headers ELSE EmptyMap

\* Probe id has settled on an answer (its request did not throw).
Answered(id) ==
  /\ \E i \in 1..Len(testsToRun) : testsToRun[i] = id /\ slots[i] # Pending
  /\ Rid(id, 1) \in DOMAIN seen
  /\ seen[Rid(id, 1)].kind # "error"

\* The settled finding of probe id.
SlotOf(id) == slots[PositionOf(id)]

HasSeverity(f, severity) == "severity" \in DOMAIN f /\ f.severity = severity

\* C7: for every status s the authentication probe observes, 2xx gives
\* failed/high, 401 and 403 give passed without severity, and every other
\* status (the synthesized 500 included) gives warning/medium.
C7_AuthClassification ==
  Answered("auth-check") =>
    LET s == ObservedStatus(seen[Rid("auth-check", 1)])
        f == SlotOf("auth-check")
    IN
    /\ (200 <= s /\ s < 300) => (f.status = "failed" /\ HasSeverity(f, "high"))
    /\ s \in {401, 403} => (f.status = "passed" /\ "severity" \notin DOMAIN f)
    /\ (~(200 <= s /\ s < 300) /\ s \notin {401, 403}) =>
          (f.status = "warning" /\ HasSeverity(f, "medium"))
    /\ Returned => Results[1] = f

\* C7 witness: the probe got 403 and the report holds its passed finding.
C7_Witness ==
  /\ Returned
  /\ Answered("auth-check")
  /\ seen[Rid("auth-check", 1)].kind = "response"
  /\ seen[Rid("auth-check", 1)].status = 403
  /\ Results[1].status = "passed"

\* The Access-Control-Allow-Origin and -Allow-Credentials values the CORS
\* probe reads back.
AllowOrigin == Get(ObservedHeaders(seen[Rid("cors-check", 1)]),
                   "access-control-allow-origin")

AllowCredentials == Get(ObservedHeaders(seen[Rid("cors-check", 1)]),
                        "access-control-allow-credentials")

\* The injected Origin value and its host part, as the request carries them.
InjectedOriginText == <<"https://", "malicious-site.example.com">>

InjectedHostText == <<"malicious-site.example.com">>

\* The first-match rules of the CORS probe, with "reflection" read as
\* "contains needle".
CorsRulesFor(needle) ==
  Answered("cors-check") =>
    LET f == SlotOf("cors-check") IN
    /\ (AllowOrigin = <<"*">> /\ AllowCredentials = <<"true">>) =>
          (f.status = "failed" /\ HasSeverity(f, "high"))
    /\ (AllowOrigin = <<"*">> /\ AllowCredentials # <<"true">>) =>
          (f.status = "warning" /\ HasSeverity(f, "medium"))
    /\ AllowOrigin = Undefined =>
          (f.status = "passed" /\ "details" \notin DOMAIN f)
    /\ (/\ AllowOrigin # Undefined
        /\ AllowOrigin # EmptyStr
        /\ AllowOrigin # <<"*">>
        /\ ~Includes(AllowOrigin, needle)) =>
          /\ f.status = "passed"
          /\ "details" \in DOMAIN f
          /\ f.details = <<"Origin: ">> \o AllowOrigin

\* C8 as stated: the wildcard rules first, absent gives passed without
\* details, and a concrete Allow-Origin that does not contain the injected
\* origin 'https://malicious-site.example.com' gives passed with details.
C8_CorsRulesVerbatimReflection == CorsRulesFor(InjectedOriginText)

\* C8: the wildcard rules first ('*' with credentials 'true' failed/high,
\* '*' otherwise warning/medium), absent Allow-Origin passed without details,
\* and a concrete Allow-Origin that is not '*' and does not contain the host
\* 'malicious-site.example.com' passed with details "Origin: <value>".
C8_CorsRulesHostReflection == CorsRulesFor(InjectedHostText)

\* C8 witness: wildcard with credentials came back and was reported
\* failed/high.
C8_Witness ==
  /\ Returned
  /\ Answered("cors-check")
  /\ AllowOrigin = <<"*">>
  /\ AllowCredentials = <<"true">>
  /\ Results[1].status = "failed"
  /\ HasSeverity(Results[1], "high")

\* The reflection rule of the CORS probe for a present, non-wildcard
\* Allow-Origin: failed/high exactly when it contains needle, else passed.
ReflectionRuleFor(needle) ==
  (/\ Answered("cors-check")
   /\ AllowOrigin # Undefined
   /\ AllowOrigin # <<"*">>) =>
    LET f == SlotOf("cors-check") IN
    /\ (f.status = "failed" /\ HasSeverity(f, "high"))
          <=> Includes(AllowOrigin, needle)
    /\ ~Includes(AllowOrigin, needle) => f.status = "passed"

\* C9 as stated: a present non-wildcard Allow-Origin is failed/high iff it
\* contains 'https://malicious-site.example.com', and passed otherwise.
C9_ReflectionIffInjectedOrigin == ReflectionRuleFor(InjectedOriginText)

\* C9: a present non-wildcard Allow-Origin is failed/high iff it contains the
\* host 'malicious-site.example.com' (the injected origin without its scheme),
\* and passed otherwise.
C9_ReflectionIffInjectedHost == ReflectionRuleFor(InjectedHostText)

\* C9 witness: an Allow-Origin naming the host under another scheme was
\* reported failed/high.
C9_Witness ==
  /\ Returned
  /\ Answered("cors-check")
  /\ AllowOrigin = <<"http://", "malicious-site.example.com">>
  /\ Results[1].status = "failed"
  /\ HasSeverity(Results[1], "high")

\* The five recommended headers in declaration order.
RecommendedHeaders ==
  <<"Strict-Transport-Security", "Content-Security-Policy",
    "X-Content-Type-Options", "X-Frame-Options", "X-XSS-Protection">>

\* The recommended headers the observed response lacks (absent or empty).
MissingObserved ==
  LET h == ObservedHeaders(seen[Rid("security-headers", 1)]) IN
  SelectSeq(RecommendedHeaders,
            LAMBDA n : LowerCase(n) \notin DOMAIN h \/ h[LowerCase(n)] = EmptyStr)

\* C10: with m of the five recommended headers missing, m = 0 gives passed,
\* 1 <= m <= 2 warning/medium, m >= 3 failed/high, and for m >= 1 the details
\* list exactly the missing names, once each, in declaration order.
C10_MissingHeaderCount ==
  Answered("security-headers") =>
    LET f == SlotOf("security-headers")
        m == Len(MissingObserved)
    IN
    /\ m = 0 => f.status = "passed"
    /\ (1 <= m /\ m <= 2) => (f.status = "warning" /\ HasSeverity(f, "medium"))
    /\ m >= 3 => (f.status = "failed" /\ HasSeverity(f, "high"))
    /\ m >= 1 =>
          /\ "details" \in DOMAIN f
          /\ f.details = <<"Missing headers: ">> \o Join(MissingObserved, ", ")

\* C10 witness: three of the five headers were missing and the report says
\* failed with those three names.
C10_Witness ==
  /\ Returned
  /\ Answered("security-headers")
  /\ MissingObserved = <<"Strict-Transport-Security", "X-Frame-Options",
                         "X-XSS-Protection">>
  /\ Results[1].status = "failed"
  /\ Results[1].details =
        <<"Missing headers: ", "Strict-Transport-Security", ", ",
          "X-Frame-Options", ", ", "X-XSS-Protection">>

\* The requests of the rate-limit burst.
BurstRids == {Rid("rate-limit", k) : k \in 1..5}

\* All five requests of the burst gave a response (received or synthesized)
\* and the probe has settled.
BurstAnswered ==
  /\ \E i \in 1..Len(testsToRun) :
        testsToRun[i] = "rate-limit" /\ slots[i] # Pending
  /\ \A rid \in BurstRids : rid \in DOMAIN seen /\ seen[rid].kind # "error"

\* The seven rate-limit header names.
ListedRateLimitHeaders ==
  {"x-rate-limit-limit", "x-rate-limit-remaining", "x-rate-limit-reset",
   "retry-after", "ratelimit-limit", "ratelimit-remaining", "ratelimit-reset"}

\* Some response of the burst has status 429 or 503.
BurstThrottled ==
  \E rid \in BurstRids : ObservedStatus(seen[rid]) \in {429, 503}

\* Some response of the burst carries a listed header with a value.
BurstHasHeader ==
  \E rid \in BurstRids, h \in ListedRateLimitHeaders :
     /\ h \in DOMAIN ObservedHeaders(seen[rid])
     /\ ObservedHeaders(seen[rid])[h] # EmptyStr

\* The burst took less than 1000 ms and every status is below 400.
BurstQuickAndClean ==
  /\ \E t \in totalTime : t < 1000
  /\ \A rid \in BurstRids : ObservedStatus(seen[rid]) < 400

BurstSent == SelectSeq(sent, LAMBDA r : r.by = "rate-limit")

\* The rate-limit probe has produced a finding from its responses (not the
\* finding of its catch block).
BurstClassified ==
  /\ \E i \in 1..Len(testsToRun) :
        testsToRun[i] = "rate-limit" /\ slots[i] # Pending
  /\ SlotOf("rate-limit").description # "Error occurred during rate limit test"

\* C12: the rate-limit probe issues exactly 5 requests, each with the
\* endpoint's own method, url and headers and its parsed body; all 5 are
\* issued before any of them is answered, and the probe classifies only when
\* all 5 have been answered.
C12_BurstOfFive ==
  /\ Len(BurstSent) \in {0, 5}
  /\ \A i \in 1..Len(BurstSent) :
        /\ BurstSent[i].method = endpoint.method
        /\ BurstSent[i].url = endpoint.url
        /\ BurstSent[i].headers = endpoint.headers
        /\ BurstSent[i].data =
              (IF endpoint.body \in {Undefined, EmptyStr} THEN Undefined
               ELSE IF JsonParses(endpoint.body) THEN JsonParse(endpoint.body)
               ELSE Null)
  /\ (\E rid \in BurstRids : rid \in DOMAIN seen) => Len(BurstSent) = 5
  /\ (\E rid \in BurstRids : rid \in inflight) => Len(BurstSent) = 5
  /\ BurstClassified => \A rid \in BurstRids : rid \in DOMAIN seen

\* C12 witness: the fifth request of the burst has been answered while the
\* first is still in flight, and the probe has not settled.
C12_Witness ==
  /\ Len(BurstSent) = 5
  /\ Rid("rate-limit", 5) \in DOMAIN seen
  /\ Rid("rate-limit", 1) \in inflight
  /\ SlotOf("rate-limit") = Pending

\* The signature types, in the order of the pattern table.
SignatureTypes ==
  <<"email", "possible credit card", "password", "secret", "token", "key",
    "SSN">>

\* The body the sensitive-data probe scans: the payload of the response it
\* observed, made serializable.
ScannedBody ==
  makeSerializable(safeAxiosRequest(seen[Rid("sensitive-data", 1)]).data)

\* M: the signature types that match the scanned body at least once, in
\* table order.
MatchedTypes ==
  SelectSeq(SignatureTypes, LAMBDA type : PatternMatches(type, ScannedBody))

\* C13: the sensitive-data finding is determined by the set M of matching
\* patterns: M empty gives passed; otherwise failed/high with exactly one
\* line 'Found possible <type> data in response' per pattern in M, in table
\* order, lines joined by newlines.
C13_SensitiveFindingByMatchSet ==
  Answered("sensitive-data") =>
    LET f == SlotOf("sensitive-data")
        n == Len(MatchedTypes)
    IN
    /\ n = 0 => (f.status = "passed" /\ DOMAIN f \cap {"details", "severity"} = {})
    /\ n > 0 =>
          /\ f.status = "failed"
          /\ HasSeverity(f, "high")
          /\ "details" \in DOMAIN f
          /\ Len(f.details) = 4 * n - 1
          /\ \A i \in 1..n :
                /\ f.details[4 * i - 3] = "Found possible "
                /\ f.details[4 * i - 2] = MatchedTypes[i]
                /\ f.details[4 * i - 1] = " data in response"
                /\ i < n => f.details[4 * i] = "\n"

\* C13 witness: a body with an SSN before a card number was reported with
\* the card line first and the SSN line second.
C13_Witness ==
  /\ Returned
  /\ Answered("sensitive-data")
  /\ MatchedTypes = <<"possible credit card", "SSN">>
  /\ Results[1].status = "failed"
  /\ Len(Results[1].details) = 7

\* A body in which one pattern matches twice still gives one line for it.
C13_TwiceMatchedOnce ==
  /\ Returned
  /\ Answered("sensitive-data")
  /\ MatchedTypes = <<"email", "password">>
  /\ Len(Results[1].details) = 7

\* The requests probe id sends.
RidsOf(id) == {Rid(id, k) : k \in 1..(IF id = "rate-limit" THEN 5 ELSE 1)}

\* The names of the registered probes.
RegisteredName(id) ==
  CASE id = "auth-check"       -> "Authentication Check"
    [] id = "sensitive-data"   -> "Sensitive Data Exposure"
    [] id = "cors-check"       -> "CORS Configuration"
    [] id = "security-headers" -> "Security Headers"
    [] id = "rate-limit"       -> "Rate Limiting"

\* C14: no run of a registered probe rejects; once its requests are
\* answered (by a response, a transport failure or a thrown error) the probe
\* has resolved to one finding; and an exception inside the probe gives
\* warning with the error text as details, severity medium for the
\* authentication probe and low for the CORS, security-headers and
\* rate-limit probes.
C14_ProbesNeverRaise ==
  /\ raised = {}
  /\ \A i \in 1..Len(testsToRun) :
       LET id == testsToRun[i] IN
       /\ (i <= started /\ RidsOf(id) \cap inflight = {}) =>
             /\ slots[i] # Pending
             /\ slots[i].name = RegisteredName(id)
             /\ slots[i].status \in {"passed", "failed", "warning"}
       /\ \A rid \in RidsOf(id) \cap DOMAIN seen :
             seen[rid].kind = "error" =>
               /\ slots[i].status = "warning"
               /\ "details" \in DOMAIN slots[i]
               /\ slots[i].details = seen[rid].message
               /\ id = "auth-check" => HasSeverity(slots[i], "medium")
               /\ id \in {"cors-check", "security-headers", "rate-limit"} =>
                     HasSeverity(slots[i], "low")

\* C14 witness: the request of the CORS probe threw and the report holds a
\* warning of severity low with the error text.
C14_Witness ==
  /\ Returned
  /\ testsToRun = <<"cors-check">>
  /\ seen[Rid("cors-check", 1)].kind = "error"
  /\ Results[1].status = "warning"
  /\ Results[1].details = <<"Invalid URL">>
  /\ HasSeverity(Results[1], "low")

\* The requests the probes sent that have been answered.
AnsweredProbeRequests == {rid \in DOMAIN seen : rid.by # "baseline"}

\* A finding of a probe's catch block (an exception reached the probe).
IsCatchFinding(f) ==
  f.description \in {"Error occurred during authentication test",
                     "Error occurred during sensitive data test",
                     "Error occurred during CORS test",
                     "Error occurred during security headers test",
                     "Error occurred during rate limit test"}

\* The response-shaped value for a failed request: the reported status or
\* 500, a status text, a header mapping (empty when none came) and a payload.
ResponseShaped(o, r) ==
  /\ r.ok
  /\ r.status = (IF o.hasResponse /\ o.status # 0 THEN o.status ELSE 500)
  /\ r.statusText # Undefined
  /\ r.headers = (IF o.hasResponse THEN o.headers ELSE EmptyMap)
  /\ r.data # Undefined

\* C15 as stated: whatever way a probe's request fails, safeAxiosRequest
\* returns a response-shaped value and no exception reaches the probe.
C15_NeverRaises ==
  \A rid \in AnsweredProbeRequests :
     seen[rid].kind # "response" =>
       /\ ResponseShaped(seen[rid], safeAxiosRequest(seen[rid]))
       /\ slots[PositionOf(rid.by)] # Pending =>
             ~IsCatchFinding(slots[PositionOf(rid.by)])

\* C15: when a probe's request fails with an axios error, safeAxiosRequest
\* returns a response-shaped value (reported status or 500, header mapping,
\* empty when none came) and no exception reaches the probe; any other error
\* is thrown again and reaches the probe's catch block.
C15_AxiosErrorsBecomeResponses ==
  \A rid \in AnsweredProbeRequests :
     /\ seen[rid].kind = "axiosError" =>
          /\ ResponseShaped(seen[rid], safeAxiosRequest(seen[rid]))
          /\ (rid.by # "rate-limit" /\ slots[PositionOf(rid.by)] # Pending) =>
                ~IsCatchFinding(slots[PositionOf(rid.by)])
     /\ seen[rid].kind = "error" =>
          /\ ~safeAxiosRequest(seen[rid]).ok
          /\ IsCatchFinding(slots[PositionOf(rid.by)])
          /\ slots[PositionOf(rid.by)].details = seen[rid].message

\* C15 witness: the authentication request failed with an axios error that
\* carried a 502 response, and the probe reported that status.
C15_Witness ==
  /\ Returned
  /\ testsToRun = <<"auth-check">>
  /\ seen[Rid("auth-check", 1)].kind = "axiosError"
  /\ seen[Rid("auth-check", 1)].hasResponse
  /\ Results[1].details =
        <<"Received status code ", "502",
          " which is neither a success nor an auth error">>

\* The baseline request has settled with outcome o.
BaselineOutcome == seen[Rid("baseline", 1)]

BaselineSettled == Rid("baseline", 1) \in DOMAIN seen

\* The document {error: <message>}.
ErrorReport(message) ==
  <<"{", "\"error\"", ":", "\"">> \o message \o <<"\"", "}">>

\* C16: when the baseline request fails, rawResponse is {error: <message>},
\* statusCode stays unset, every selected probe is still run and the report
\* is returned with these values; when it completes with any status,
\* statusCode is that status.
C16_BaselineFailureTolerated ==
  BaselineSettled =>
    /\ BaselineOutcome.kind # "response" =>
          /\ rawResponse = ErrorReport(BaselineOutcome.message)
          /\ statusCode = {}
          /\ Returned =>
                /\ report[1].rawResponse = ErrorReport(BaselineOutcome.message)
                /\ report[1].statusCode = {}
                /\ Len(Results) = Len(SelectionOrder)
                /\ \A i \in 1..Len(SelectionOrder) :
                      /\ \E k \in 1..Len(sent) : sent[k].by = SelectionOrder[i]
                      /\ Results[i].name = RegisteredName(SelectionOrder[i])
    /\ BaselineOutcome.kind = "response" =>
          /\ statusCode = {BaselineOutcome.status}
          /\ Returned => report[1].statusCode = {BaselineOutcome.status}

\* C16 witness: the baseline request failed and the report holds the error
\* and the findings of all five probes.
C16_Witness ==
  /\ Returned
  /\ BaselineSettled
  /\ BaselineOutcome.kind = "axiosError"
  /\ report[1].rawResponse = <<"{", "\"error\"", ":", "\"", "Network Error", "\"", "}">>
  /\ report[1].statusCode = {}
  /\ Len(Results) = 5

\* The baseline request was answered 503 and the report carries that status.
C16_ErrorStatusKept ==
  /\ Returned
  /\ BaselineSettled
  /\ report[1].statusCode = {503}

\* C17 as stated: makeSerializable returns on every value, reference cycles
\* included, and never raises.
C17_MakeSerializableTotal ==
  pc \in {"serialized", "reserialized"} => ~once.raised

\* makeSerializable returns on a cycle that passes through a property of an
\* object: the overflow is caught where that property is copied.
C17_ObjectCyclesReturn ==
  (/\ pc \in {"serialized", "reserialized"}
   /\ value.t = "object") => ~once.raised

\* A value JSON.stringify accepts.
Encodable(term) == ~StringifyThrows(term)

\* C18: on every value for which makeSerializable returns, applying it to
\* its own result gives that result again, and an encodable value is
\* returned unchanged.
C18_MakeSerializableIdempotent ==
  /\ (pc \in {"serialized", "reserialized"} /\ Encodable(value)) =>
        (~once.raised /\ once.value = value)
  /\ pc = "reserialized" => (~twice.raised /\ twice.value = once.value)

\* C18 witness: an object that holds itself and a BigInt was rebuilt, and
\* the second call gave the rebuilt value back.
C18_Witness ==
  /\ pc = "reserialized"
  /\ value = Container("object", <<Up(1), BigIntLeaf>>)
  /\ once.value # value
  /\ Encodable(once.value)
  /\ twice = once

\* C19: in every finding of a scan, from a probe or from the orchestrator's
\* fallback, status passed comes without severity and status failed or
\* warning comes with one.
C19_SeverityIffNotPassed ==
  /\ \A i \in 1..Len(slots) :
        slots[i] # Pending =>
          /\ slots[i].status \in {"passed", "failed", "warning"}
          /\ slots[i].status = "passed" => "severity" \notin DOMAIN slots[i]
          /\ slots[i].status \in {"failed", "warning"} =>
                /\ "severity" \in DOMAIN slots[i]
                /\ slots[i].severity \in {"low", "medium", "high"}
  /\ Returned =>
        \A i \in 1..Len(Results) :
           (Results[i].status = "passed") <=> ("severity" \notin DOMAIN Results[i])

\* C19 witness: the run of a probe raised and the report holds the fallback
\* finding, a warning with a severity.
C19_Witness ==
  /\ Returned
  /\ raised # {}
  /\ Results[1].status = "warning"
  /\ Results[1].description = "Test execution failed"
  /\ HasSeverity(Results[1], "medium")

\* A passed finding with details and no severity was reported.
C19_PassedWithDetails ==
  /\ Returned
  /\ Results[1].status = "passed"
  /\ "details" \in DOMAIN Results[1]
  /\ "severity" \notin DOMAIN Results[1]

\* The requests handed to axios by the probes.
ProbeRequestsSent == SelectSeq(sent, LAMBDA r : r.by # "baseline")

\* The baseline request is over: answered, failed, or never sent because its
\* config could not be built.
BaselineOver ==
  /\ Rid("baseline", 1) \notin inflight
  /\ pc \notin {"start", "awaitBaseline"}

\* Every selected probe has been started (its requests are out).
AllProbesStarted ==
  \A i \in 1..Len(SelectionOrder) :
     \E k \in 1..Len(sent) : sent[k].by = SelectionOrder[i]

\* The order of the three phases.
PhaseOrder ==
  /\ Len(ProbeRequestsSent) > 0 => BaselineOver
  /\ (\E rid \in DOMAIN seen : rid.by # "baseline") => AllProbesStarted
  /\ (\E i \in 1..Len(slots) : slots[i] # Pending) => AllProbesStarted
  /\ Returned =>
        /\ Len(Results) = Len(SelectionOrder)
        /\ \A i \in 1..Len(slots) : slots[i] # Pending
        /\ Results = slots

\* C20: no probe sends a request before the baseline request is over; every
\* selected probe is started before any probe's answer is taken; the report
\* is returned only when every selected probe has its finding; and, every
\* request settling, the scan eventually returns its report.
C20_ThreePhases == []PhaseOrder /\ <>Returned

\* C20 witness: the baseline request failed, all five probes are started and
\* no answer to any of them has been taken yet.
C20_Witness ==
  /\ selectedTests = <<>>
  /\ BaselineSettled
  /\ BaselineOutcome.kind = "axiosError"
  /\ started = 5
  /\ Len(ProbeRequestsSent) = 9
  /\ \A rid \in DOMAIN seen : rid.by = "baseline"
  /\ \A i \in 1..Len(slots) : slots[i] = Pending

\* C21: the caller's endpoint is never changed by a scan: url, method, body
\* and headers are as given, in the returned report too, and every request of
\* a probe other than the authentication probe carries every header the
\* caller gave, credentials included.
C21_EndpointUnchanged ==
  /\ endpoint = given
  /\ Returned => report[1].endpoint = given
  /\ \A k \in 1..Len(sent) :
        sent[k].by # "auth-check" =>
          /\ sent[k].url = given.url
          /\ sent[k].method =
                (IF sent[k].by = "cors-check" THEN "OPTIONS" ELSE given.method)
          /\ \A h \in DOMAIN given.headers :
                /\ h \in DOMAIN sent[k].headers
                /\ sent[k].headers[h] = given.headers[h]

\* C21 witness: the authentication probe sent its request without the
\* credentials, the rate-limit probe started after it sent them, and the
\* report holds the endpoint with both credentials.
C21_Witness ==
  /\ Returned
  /\ selectedTests = <<>>
  /\ DOMAIN given.headers = {"Authorization", "x-api-key"}
  /\ \E k \in 1..Len(sent) :
        sent[k].by = "auth-check" /\ DOMAIN sent[k].headers = {}
  /\ \E k \in 1..Len(sent) :
        /\ sent[k].by = "rate-limit"
        /\ DOMAIN sent[k].headers = {"Authorization", "x-api-key"}
  /\ DOMAIN report[1].endpoint.headers = {"Authorization", "x-api-key"}

\* The ids of the five registered probes.
RegisteredProbeIds ==
  {"auth-check", "sensitive-data", "cors-check", "security-headers",
   "rate-limit"}

\* The registered ids that occur in the selection list.
Wanted == {selectedTests[i] : i \in 1..Len(selectedTests)} \cap RegisteredProbeIds

\* How many requests probe id has handed to axios.
RequestsBy(id) == Len(SelectSeq(sent, LAMBDA r : r.by = id))

\* C22: for a non-empty selection list the probes run are exactly the
\* registered probes whose id occurs in it, each once: ids that are not
\* registered are ignored, a repeated id gives one finding, and a list with
\* no registered id gives an empty results list.
C22_SelectionFiltered ==
  (Len(selectedTests) > 0 /\ pc \in {"fanout", "awaitAll", "done"}) =>
    /\ {testsToRun[i] : i \in 1..Len(testsToRun)} = Wanted
    /\ Len(testsToRun) = Cardinality(Wanted)
    /\ \A id \in RegisteredProbeIds \ Wanted : RequestsBy(id) = 0
    /\ Returned =>
          /\ Len(Results) = Cardinality(Wanted)
          /\ \A id \in Wanted :
                /\ RequestsBy(id) = (IF id = "rate-limit" THEN 5 ELSE 1)
                /\ Cardinality({i \in 1..Len(Results) :
                                  Results[i].name = RegisteredName(id)}) = 1
          /\ Wanted = {} => Results = <<>>

\* C22 witness: a list naming no registered probe gave a report with no
\* results, and no probe sent a request.
C22_Witness ==
  /\ Returned
  /\ selectedTests = <<"no-such-test", "no-such-test">>
  /\ Results = <<>>
  /\ Len(ProbeRequestsSent) = 0

\* A list that names one probe twice, beside an unknown id, gave one finding.
C22_RepeatedIdOnce ==
  /\ Returned
  /\ selectedTests = <<"auth-check", "no-such-test", "auth-check">>
  /\ Len(Results) = 1
  /\ RequestsBy("auth-check") = 1

\* The number of requests a run of probe id sends.
RequestsPerRun(id) == IF id = "rate-limit" THEN 5 ELSE 1

FormLines == Split(headersText, "\n")

\* The key of a line: what stands before its first colon, trimmed.
KeyOfLine(line) == Trim(SubSeq(line, 1, IndexOf(line, ":") - 1))

\* The complete value of a line: everything after its first colon, trimmed.
ValueOfLine(line) == Trim(SubSeq(line, IndexOf(line, ":") + 1, Len(line)))

\* A line of the shape 'Key: Value' with non-empty key and value.
KeyValueLine(line) ==
  /\ IndexOf(line, ":") > 0
  /\ KeyOfLine(line) # <<>>
  /\ ValueOfLine(line) # <<>>

\* C24 as stated: every line 'Key: Value' with non-empty key and value gives
\* the entry Key -> Value, the value being everything after the first colon
\* (for a repeated key, the last such line), and every other line is dropped.
C24_HeaderLinesParsed ==
  pc = "submitted" =>
    /\ DOMAIN endpoint.headers =
          {KeyOfLine(FormLines[i]) :
             i \in {k \in 1..Len(FormLines) : KeyValueLine(FormLines[k])}}
    /\ \A i \in 1..Len(FormLines) :
          (/\ KeyValueLine(FormLines[i])
           /\ \A j \in (i + 1)..Len(FormLines) :
                 ~(/\ KeyValueLine(FormLines[j])
                   /\ KeyOfLine(FormLines[j]) = KeyOfLine(FormLines[i]))) =>
             /\ KeyOfLine(FormLines[i]) \in DOMAIN endpoint.headers
             /\ endpoint.headers[KeyOfLine(FormLines[i])] =
                   ValueOfLine(FormLines[i])

\* Lines whose value holds no colon are parsed as the form says.
C24_ColonFreeValuesParsed ==
  (/\ pc = "submitted"
   /\ \A i \in 1..Len(FormLines) :
         IndexOf(ValueOfLine(FormLines[i]), ":") = 0) =>
    \A i \in 1..Len(FormLines) :
       (/\ KeyValueLine(FormLines[i])
        /\ \A j \in (i + 1)..Len(FormLines) :
              ~(/\ KeyValueLine(FormLines[j])
                /\ KeyOfLine(FormLines[j]) = KeyOfLine(FormLines[i]))) =>
          /\ KeyOfLine(FormLines[i]) \in DOMAIN endpoint.headers
          /\ endpoint.headers[KeyOfLine(FormLines[i])] =
                ValueOfLine(FormLines[i])

=============================================================================
